---- MODULE Spec2Model ----
(***************************************************************************)
(* scryball: a caching mediator between Scryfall search queries / card     *)
(* names / oracle ids and a local SQLite store, plus the decklist parser   *)
(* built on top of it.                                                     *)
(*                                                                         *)
(* Strings that the code inspects character by character (decklist lines,  *)
(* card names) are sequences of one-character strings.  Query texts and    *)
(* oracle ids are only compared for equality and are plain strings.        *)
(*                                                                         *)
(* The store's writes may fail (the code has a recovery path for each of   *)
(* them); the store's reads are taken to succeed.  The remote client is an *)
(* external collaborator: each call answers with an error or with records  *)
(* of RemoteCatalog, chosen freely at every call.                          *)
(***************************************************************************)
EXTENDS Integers, Sequences, FiniteSets, TLC

VARIABLES
    cards,          \* table cards: oracle_id -> name, for the rows that exist
    printings,      \* table printings: id -> oracle_id, or NoRow
    queryCache,     \* table query_cache: sequence of rows [query_text, oracle_ids, hit_count]
    last,           \* the last completed resolver call and what it returned
    pc,             \* parseDecklist: "idle" or "parsing"
    lineNo,         \* parseDecklist: i, the index of the next line (0-based)
    hasAbout,       \* parseDecklist local
    inDeck,         \* parseDecklist local
    inSideboard,    \* parseDecklist local
    sideboardTotal, \* parseDecklist local
    decklist,       \* parseDecklist local: [Maindeck, Sideboard], sequences of entries
    input,          \* parseDecklist: where the text comes from, and the totals it states
    rest,           \* parseDecklist: the lines of a given text that are still to be read
    lastParse,      \* the last completed parseDecklist call and what it returned
    deck,           \* a Decklist handed to the validators
    verdict,        \* the last completed Validate* call and what it returned
    mu,             \* Scryball.mu: the caller holding the mutex, or Nil
    proc,           \* concurrent callers: each caller's call, position and locals
    CurrentScryball, \* the package's instance: Nil, "default" or "configured"
    initOnce        \* the package's sync.Once: TRUE when Do has run its function

vars == <<cards, printings, queryCache, last, pc, lineNo, hasAbout,
          inDeck, inSideboard, sideboardTotal, decklist, input, rest, lastParse,
          deck, verdict, mu, proc, CurrentScryball, initOnce>>

resolverVars == <<cards, printings, queryCache, last>>
parserVars == <<pc, lineNo, hasAbout, inDeck, inSideboard, sideboardTotal,
                decklist, input, rest, lastParse>>
validatorVars == <<deck, verdict>>
callerVars == <<mu, proc>>
instanceVars == <<CurrentScryball, initOnce>>
uncalledVars == <<last, pc, lineNo, hasAbout, inDeck, inSideboard, sideboardTotal,
                  decklist, input, rest, lastParse, deck, verdict>>

----------------------------------------------------------------------------
(* Bounds *)

MaxResults == 2     \* longest record sequence one remote search returns
MaxLines == 4       \* longest decklist text, in lines
MaxHits == 3        \* hit_count is counted modulo MaxHits

----------------------------------------------------------------------------
(* Values *)

NoRow == "NoRow"
Null == "null"
Nil == "nil"
NoCard == [OracleID |-> "", Name |-> <<>>, Printings |-> {}]

OracleIds == {"o1", "o2"}
\* the oracle ids a caller can ask for: those of the remote, and "o1" written
\* in upper case
OracleIdInputs == OracleIds \cup {"O1"}
PrintingIds == {"p1", "p2", "p3", "p4"}
Queries == {"q1", "q2"}

NameA == <<"A">>
NameALower == <<"a">>
NameB == <<"B">>
NameBU == <<"B", " ", "(", "U", ")">>
NameT == <<"T">>

\* What the remote knows: two printings of card o1 "A", one printing of card
\* o2 "B (U)" (a name with a parenthetical, as the Un-set cards have), and a
\* record without oracle_id.
RemoteCatalog ==
    { [id |-> "p1", oracle_id |-> "o1", name |-> NameA],
      [id |-> "p2", oracle_id |-> "o1", name |-> NameA],
      [id |-> "p3", oracle_id |-> "o2", name |-> NameBU],
      [id |-> "p4", oracle_id |-> Null, name |-> NameT] }

QueryNames == {NameA, NameALower, NameB, NameBU}

----------------------------------------------------------------------------
(* strings, strconv *)

LowerChar(c) ==
    CASE c = "A" -> "a" [] c = "B" -> "b" [] c = "C" -> "c" [] c = "D" -> "d"
      [] c = "E" -> "e" [] c = "F" -> "f" [] c = "G" -> "g" [] c = "H" -> "h"
      [] c = "I" -> "i" [] c = "J" -> "j" [] c = "K" -> "k" [] c = "L" -> "l"
      [] c = "M" -> "m" [] c = "N" -> "n" [] c = "O" -> "o" [] c = "P" -> "p"
      [] c = "Q" -> "q" [] c = "R" -> "r" [] c = "S" -> "s" [] c = "T" -> "t"
      [] c = "U" -> "u" [] c = "V" -> "v" [] c = "W" -> "w" [] c = "X" -> "x"
      [] c = "Y" -> "y" [] c = "Z" -> "z" [] OTHER -> c

ToLower(s) == [i \in 1..Len(s) |-> LowerChar(s[i])]

EqualFold(s, t) == ToLower(s) = ToLower(t)

\* 1-based index of the last occurrence of c in s; 0 where Go returns -1
LastIndex(s, c) ==
    LET hits == {i \in 1..Len(s) : s[i] = c}
    IN  IF hits = {} THEN 0 ELSE CHOOSE i \in hits : \A j \in hits : j <= i

\* 1-based index of the first occurrence of c in s; 0 if none
Index(s, c) ==
    LET hits == {i \in 1..Len(s) : s[i] = c}
    IN  IF hits = {} THEN 0 ELSE CHOOSE i \in hits : \A j \in hits : i <= j

TrimSpace(s) ==
    LET keep == {i \in 1..Len(s) : s[i] # " "}
    IN  IF keep = {} THEN <<>>
        ELSE LET lo == CHOOSE i \in keep : \A j \in keep : i <= j
                 hi == CHOOSE i \in keep : \A j \in keep : j <= i
             IN  SubSeq(s, lo, hi)

\* strings.SplitN(s, " ", 2)
SplitN2(s) ==
    LET k == Index(s, " ")
    IN  IF k = 0 THEN <<s>> ELSE <<SubSeq(s, 1, k - 1), SubSeq(s, k + 1, Len(s))>>

\* strings.Split(s, " ")[0]
FirstField(s) ==
    LET k == Index(s, " ") IN IF k = 0 THEN s ELSE SubSeq(s, 1, k - 1)

Digits == <<"0", "1", "2", "3", "4", "5", "6", "7", "8", "9">>

IsDigit(c) == \E d \in 1..10 : Digits[d] = c

DigitVal(c) == (CHOOSE d \in 1..10 : Digits[d] = c) - 1

RECURSIVE DigitsVal(_)
DigitsVal(s) ==
    IF s = <<>> THEN 0
    ELSE 10 * DigitsVal(SubSeq(s, 1, Len(s) - 1)) + DigitVal(s[Len(s)])

\* strconv.Atoi: an optional sign, then at least one digit and only digits
Atoi(s) ==
    LET signed == s # <<>> /\ s[1] \in {"-", "+"}
        body == IF signed THEN Tail(s) ELSE s
    IN  IF body = <<>> \/ \E i \in 1..Len(body) : ~IsDigit(body[i])
        THEN [ok |-> FALSE, val |-> 0]
        ELSE [ok |-> TRUE,
              val |-> IF signed /\ s[1] = "-" THEN 0 - DigitsVal(body)
                      ELSE DigitsVal(body)]

RECURSIVE NatToStr(_)
NatToStr(n) ==
    IF n < 10 THEN <<Digits[n + 1]>>
    ELSE NatToStr(n \div 10) \o <<Digits[(n % 10) + 1]>>

\* fmt.Sprintf("%d", n)
Itoa(n) == IF n < 0 THEN <<"-">> \o NatToStr(0 - n) ELSE NatToStr(n)

----------------------------------------------------------------------------
(* The store *)

\* a card write that empties the table of the other cards
UpsertCard_DropsOthers(c, apiCard) ==
    [o \in {apiCard.oracle_id} |-> apiCard.name]

\* query.sql UpsertCard: INSERT ... ON CONFLICT(oracle_id) DO UPDATE
UpsertCard(c, apiCard) ==
    [o \in DOMAIN c \cup {apiCard.oracle_id} |->
        IF o = apiCard.oracle_id THEN apiCard.name ELSE c[o]]

\* query.sql UpsertPrinting: INSERT ... ON CONFLICT(id) DO UPDATE
UpsertPrinting(p, apiCard) == [p EXCEPT ![apiCard.id] = apiCard.oracle_id]

\* query.sql GetCardByOracleID: the oracle ids with a row (at most the one asked for)
GetCardByOracleID(c, oracleID) == {o \in DOMAIN c : o = oracleID}

\* query.sql GetCardByName: WHERE LOWER(name) = LOWER(?)
GetCardByName(c, name) ==
    {o \in DOMAIN c : ToLower(c[o]) = ToLower(name)}

\* query.sql GetPrintingsByOracleID
GetPrintingsByOracleID(p, oracleID) == {id \in DOMAIN p : p[id] = oracleID}

\* query.sql GetCachedQuery: WHERE query_text = ? LIMIT 1; <<>> stands for sql.ErrNoRows
GetCachedQuery(qc, query) ==
    LET hits == {i \in 1..Len(qc) : qc[i].query_text = query}
    IN  IF hits = {} THEN <<>>
        ELSE <<qc[CHOOSE i \in hits : \A j \in hits : i <= j]>>

\* query.sql InsertQueryCache
InsertQueryCache(qc, query, oracleIDs) ==
    Append(qc, [query_text |-> query, oracle_ids |-> oracleIDs, hit_count |-> 0])

\* query.sql UpdateQueryCacheHit: SET hit_count = hit_count + 1 WHERE query_text = ?
UpdateQueryCacheHit(qc, query) ==
    [i \in 1..Len(qc) |->
        IF qc[i].query_text = query
        THEN [qc[i] EXCEPT !.hit_count = (@ + 1) % MaxHits] ELSE qc[i]]

----------------------------------------------------------------------------
(* Reading cards back: fetch.go *)

buildMagicCardFromDB(c, p, oracleID) ==
    [OracleID |-> oracleID, Name |-> c[oracleID],
     Printings |-> GetPrintingsByOracleID(p, oracleID)]

\* [err, card]: err is Nil and card the aggregate, or err names the failure
FetchCardByExactOracleID(c, p, oracleID) ==
    IF GetCardByOracleID(c, oracleID) = {}
    THEN [err |-> "no card found with oracle_id", card |-> NoCard]
    ELSE [err |-> Nil, card |-> buildMagicCardFromDB(c, p, oracleID)]

\* the set of possible [err, card]: LIMIT 1 picks any row whose name matches
FetchCardByExactName(c, p, name) ==
    IF GetCardByName(c, name) = {}
    THEN {[err |-> "sql.ErrNoRows", card |-> NoCard]}
    ELSE {[err |-> Nil, card |-> buildMagicCardFromDB(c, p, o)] :
             o \in GetCardByName(c, name)}

RECURSIVE FetchEach_SkipsMissing(_, _, _)
\* the loop of FetchCardsByQuery leaving out the oracle ids it cannot fetch
FetchEach_SkipsMissing(c, p, oracleIDs) ==
    IF oracleIDs = <<>> THEN [err |-> Nil, result |-> <<>>]
    ELSE LET one == FetchCardByExactOracleID(c, p, Head(oracleIDs))
             more == FetchEach_SkipsMissing(c, p, Tail(oracleIDs))
         IN  IF one.err # Nil THEN more
             ELSE [err |-> Nil, result |-> <<one.card>> \o more.result]

RECURSIVE FetchEach(_, _, _)
FetchEach(c, p, oracleIDs) ==
    IF oracleIDs = <<>> THEN [err |-> Nil, result |-> <<>>]
    ELSE LET one == FetchCardByExactOracleID(c, p, Head(oracleIDs))
         IN  IF one.err # Nil
             THEN [err |-> "failed to fetch card by oracle ID", result |-> <<>>]
             ELSE LET more == FetchEach(c, p, Tail(oracleIDs))
                  IN  IF more.err # Nil THEN more
                      ELSE [err |-> Nil, result |-> <<one.card>> \o more.result]

\* FetchCardsByQuery reporting a query cached with no oracle id as never cached
FetchCardsByQuery_EmptyIsMiss(c, p, qc, query) ==
    LET row == GetCachedQuery(qc, query)
    IN  IF row = <<>> \/ row[1].oracle_ids = <<>>
        THEN [err |-> "sql.ErrNoRows", isNil |-> TRUE, result |-> <<>>]
        ELSE LET all == FetchEach(c, p, row[1].oracle_ids)
             IN  IF all.err # Nil
                 THEN [err |-> all.err, isNil |-> TRUE, result |-> <<>>]
                 ELSE [err |-> Nil, isNil |-> FALSE, result |-> all.result]

\* [err, isNil, result]
FetchCardsByQuery(c, p, qc, query) ==
    LET row == GetCachedQuery(qc, query)
    IN  IF row = <<>>
        THEN [err |-> "sql.ErrNoRows", isNil |-> TRUE, result |-> <<>>]
        ELSE LET all == FetchEach(c, p, row[1].oracle_ids)
             IN  IF all.err # Nil
                 THEN [err |-> all.err, isNil |-> TRUE, result |-> <<>>]
                 ELSE [err |-> Nil, isNil |-> FALSE, result |-> all.result]

----------------------------------------------------------------------------
(* The remote client: internal/client *)

RECURSIVE SeqsUpTo(_, _)
\* the sequences of at most n distinct elements of S
SeqsUpTo(S, n) ==
    IF n = 0 THEN {<<>>}
    ELSE {<<>>} \cup UNION { {<<x>> \o t : t \in SeqsUpTo(S \ {x}, n - 1)} : x \in S }

\* Client.QueryForCards: an error, or all pages of the result as one sequence
QueryForCards == {[err |-> "failed to query cards", data |-> <<>>]}
                 \cup {[err |-> Nil, data |-> d] : d \in SeqsUpTo(RemoteCatalog, MaxResults)}

\* Client.QueryForSpecificCard, Client.QueryForSpecificCardByOracleID:
\* an error (also when nothing matches), or one record
QueryForSpecificCard == {[err |-> "failed to find card", data |-> <<>>]}
                        \cup {[err |-> Nil, data |-> <<r>>] : r \in RemoteCatalog}

\* Client.FetchAllPrintings(card): an error, or the records the prints search
\* of the card returns
FetchAllPrintings(apiCard) ==
    {[err |-> "failed to fetch printings", data |-> {}]}
    \cup {[err |-> Nil, data |-> d] :
            d \in SUBSET {r \in RemoteCatalog :
                            r.oracle_id \in {apiCard.oracle_id, Null}}}

----------------------------------------------------------------------------
(* query.go *)

Outcome(c, p, err, card, calls) ==
    [cards |-> c, printings |-> p, err |-> err, card |-> card, calls |-> calls]

RECURSIVE UpsertPrintings(_, _)
UpsertPrintings(p, rs) ==
    IF rs = {} THEN p
    ELSE LET r == CHOOSE x \in rs : TRUE
         IN  UpsertPrintings(UpsertPrinting(p, r), rs \ {r})

\* InsertCardFromAPI writing the printing before the card
InsertCardFromAPI_PrintingFirst(c, p, apiCard) ==
    IF apiCard.oracle_id = Null
    THEN {Outcome(c, p, "could not convert API card to DB params", NoCard, 0)}
    ELSE
      LET c1 == UpsertCard(c, apiCard)
          p1 == UpsertPrinting(p, apiCard)
          reread(p2) ==
              LET f == FetchCardByExactOracleID(c1, p2, apiCard.oracle_id)
              IN  IF f.err # Nil
                  THEN Outcome(c1, p2, "could not fetch newly stored card", NoCard, 1)
                  ELSE Outcome(c1, p2, Nil, f.card, 1)
          \* lines 76-103: the printings the loop stores, for each answer of
          \* FetchAllPrintings and each set of printings whose upsert fails
          stored == UNION {
                 IF all.err # Nil THEN {{}}
                 ELSE { {r \in all.data : r.oracle_id # Null /\ r \notin failed}
                        : failed \in SUBSET all.data }
                 : all \in FetchAllPrintings(apiCard) }
      IN  {Outcome(c, p, "could not upsert printing", NoCard, 0)}
          \cup {Outcome(c, p1, "could not upsert card", NoCard, 0)}
          \cup {reread(UpsertPrintings(p1, rs)) : rs \in stored}

\* The possible outcomes of InsertCardFromAPI on the store (c, p):
\* [cards, printings, err, card, calls], calls counting the remote requests.
InsertCardFromAPI(c, p, apiCard) ==
    IF apiCard.oracle_id = Null
    THEN {Outcome(c, p, "could not convert API card to DB params", NoCard, 0)}
    ELSE
      LET c1 == UpsertCard(c, apiCard)
          p1 == UpsertPrinting(p, apiCard)
          reread(p2) ==
              LET f == FetchCardByExactOracleID(c1, p2, apiCard.oracle_id)
              IN  IF f.err # Nil
                  THEN Outcome(c1, p2, "could not fetch newly stored card", NoCard, 1)
                  ELSE Outcome(c1, p2, Nil, f.card, 1)
          \* lines 76-103: the printings the loop stores, for each answer of
          \* FetchAllPrintings and each set of printings whose upsert fails
          stored == UNION {
                 IF all.err # Nil THEN {{}}
                 ELSE { {r \in all.data : r.oracle_id # Null /\ r \notin failed}
                        : failed \in SUBSET all.data }
                 : all \in FetchAllPrintings(apiCard) }
      IN  {Outcome(c, p, "could not upsert card", NoCard, 0)}
          \cup {Outcome(c1, p, "could not upsert printing", NoCard, 0)}
          \cup {reread(UpsertPrintings(p1, rs)) : rs \in stored}

\* cacheQuery writing the oracle ids sorted instead of in the order of the result
cacheQuery_SortsIds(qc, query, oracleIDs) ==
    LET sorted == IF Len(oracleIDs) = 2 /\ oracleIDs[1] = "o2"
                  THEN <<oracleIDs[2], oracleIDs[1]>> ELSE oracleIDs
    IN  { [err |-> Nil, queryCache |-> InsertQueryCache(qc, query, sorted)],
          [err |-> "could not cache query", queryCache |-> qc] }

\* cacheQuery: the possible [err, queryCache]
cacheQuery(qc, query, oracleIDs) ==
    { [err |-> Nil, queryCache |-> InsertQueryCache(qc, query, oracleIDs)],
      [err |-> "could not cache query", queryCache |-> qc] }

\* the grouping stopping at the first record without oracle_id
OracleMap_StopsAtNull(apiCards) ==
    LET n == IF \E i \in 1..Len(apiCards) : apiCards[i].oracle_id = Null
             THEN (CHOOSE i \in 1..Len(apiCards) :
                      /\ apiCards[i].oracle_id = Null
                      /\ \A j \in 1..(i - 1) : apiCards[j].oracle_id # Null) - 1
             ELSE Len(apiCards)
    IN  [o \in {apiCards[i].oracle_id : i \in 1..n} |->
            apiCards[CHOOSE i \in 1..n :
                        /\ apiCards[i].oracle_id = o
                        /\ \A j \in 1..(i - 1) : apiCards[j].oracle_id # o]]

\* findQuery lines 156-169: the first record seen for each non-null oracle_id
OracleMap(apiCards) ==
    [o \in {apiCards[i].oracle_id : i \in 1..Len(apiCards)} \ {Null} |->
        apiCards[CHOOSE i \in 1..Len(apiCards) :
                    /\ apiCards[i].oracle_id = o
                    /\ \A j \in 1..(i - 1) : apiCards[j].oracle_id # o]]

\* the orders in which `for oracleID, sampleCard := range oracleMap` can visit the keys
RangeOrders(m) == {s \in SeqsUpTo(DOMAIN m, Cardinality(DOMAIN m)) : Len(s) = Cardinality(DOMAIN m)}

\* an outcome together with the answers the remote gave to the call's searches
Seen(o, answers) == [seen |-> answers] @@ o

\* the outcome without the answers of the remote
Unseen(o) == [f \in DOMAIN o \ {"seen"} |-> o[f]]

ROutcome(c, p, qc, err, isNil, result, ids, calls, cached) ==
    [cards |-> c, printings |-> p, queryCache |-> qc, err |-> err, isNil |-> isNil,
     result |-> result, ids |-> ids, calls |-> calls, cached |-> cached]

RECURSIVE InsertEach_SkipsFailed(_, _, _, _, _)
\* the insertions going on with the next key after one of them fails
InsertEach_SkipsFailed(c, p, m, order, calls) ==
    IF order = <<>>
    THEN {[cards |-> c, printings |-> p, err |-> Nil, result |-> <<>>, ids |-> <<>>,
           calls |-> calls]}
    ELSE UNION {
           IF o.err # Nil
           THEN InsertEach_SkipsFailed(o.cards, o.printings, m, Tail(order),
                                       calls + o.calls)
           ELSE { [r EXCEPT !.result = <<o.card>> \o r.result,
                            !.ids = <<Head(order)>> \o r.ids]
                  : r \in InsertEach_SkipsFailed(o.cards, o.printings, m, Tail(order),
                                                 calls + o.calls) }
           : o \in InsertCardFromAPI(c, p, m[Head(order)]) }

RECURSIVE InsertEach(_, _, _, _, _)
\* findQuery lines 175-184: [cards, printings, err, result, ids, calls] for each way
\* the insertions of the keys `order` of oracleMap m can go
InsertEach(c, p, m, order, calls) ==
    IF order = <<>>
    THEN {[cards |-> c, printings |-> p, err |-> Nil, result |-> <<>>, ids |-> <<>>,
           calls |-> calls]}
    ELSE UNION {
           IF o.err # Nil
           THEN {[cards |-> o.cards, printings |-> o.printings, err |-> o.err,
                  result |-> <<>>, ids |-> <<>>, calls |-> calls + o.calls]}
           ELSE { [r EXCEPT !.result = <<o.card>> \o r.result,
                            !.ids = <<Head(order)>> \o r.ids]
                  : r \in InsertEach(o.cards, o.printings, m, Tail(order),
                                     calls + o.calls) }
           : o \in InsertCardFromAPI(c, p, m[Head(order)]) }

\* a hit that counts itself in the entry
CacheAfterHit_CountsHit(qc, query) == UpdateQueryCacheHit(qc, query)

\* findQuery lines 135-144: what a hit leaves of query_cache; neither findQuery
\* nor FetchCardsByQuery calls UpdateQueryCacheHit
CacheAfterHit(qc, query) == qc

\* findQuery returning the error of a failed cache write
findQuery_CacheFailureFatal(c, p, qc, query) ==
    LET cachedCards == FetchCardsByQuery(c, p, qc, query)
    IN  IF cachedCards.err = Nil
        THEN {ROutcome(c, p, CacheAfterHit(qc, query), Nil, FALSE, cachedCards.result,
                       <<>>, 0, FALSE)}
        ELSE IF cachedCards.err # "sql.ErrNoRows"
        THEN {ROutcome(c, p, qc, cachedCards.err, TRUE, <<>>, <<>>, 0, FALSE)}
        ELSE UNION {
          IF api.err # Nil
          THEN {Seen(ROutcome(c, p, qc, api.err, TRUE, <<>>, <<>>, 1, FALSE), <<api>>)}
          ELSE UNION { UNION {
                 IF ins.err # Nil
                 THEN {Seen(ROutcome(ins.cards, ins.printings, qc, ins.err, TRUE, <<>>,
                                     <<>>, ins.calls, FALSE), <<api>>)}
                 ELSE { Seen(IF w.err # Nil
                             THEN ROutcome(ins.cards, ins.printings, w.queryCache, w.err,
                                           TRUE, <<>>, <<>>, ins.calls, FALSE)
                             ELSE ROutcome(ins.cards, ins.printings, w.queryCache, Nil,
                                           FALSE, ins.result, ins.ids, ins.calls, TRUE),
                             <<api>>)
                        : w \in cacheQuery(qc, query, ins.ids) }
                 : ins \in InsertEach(c, p, OracleMap(api.data), order, 1) }
               : order \in RangeOrders(OracleMap(api.data)) }
          : api \in QueryForCards }

\* findQuery: the possible outcomes of Query(query) on the store (c, p, qc)
findQuery(c, p, qc, query) ==
    LET cachedCards == FetchCardsByQuery(c, p, qc, query)
    IN  IF cachedCards.err = Nil
        THEN {ROutcome(c, p, CacheAfterHit(qc, query), Nil, FALSE, cachedCards.result,
                       <<>>, 0, FALSE)}
        ELSE IF cachedCards.err # "sql.ErrNoRows"
        THEN {ROutcome(c, p, qc, cachedCards.err, TRUE, <<>>, <<>>, 0, FALSE)}
        ELSE UNION {
          IF api.err # Nil
          THEN {Seen(ROutcome(c, p, qc, api.err, TRUE, <<>>, <<>>, 1, FALSE), <<api>>)}
          ELSE UNION { UNION {
                 IF ins.err # Nil
                 THEN {Seen(ROutcome(ins.cards, ins.printings, qc, ins.err, TRUE, <<>>,
                                     <<>>, ins.calls, FALSE), <<api>>)}
                 ELSE { Seen(ROutcome(ins.cards, ins.printings, w.queryCache, Nil, FALSE,
                                      ins.result, ins.ids, ins.calls, w.err = Nil),
                             <<api>>)
                        : w \in cacheQuery(qc, query, ins.ids) }
                 : ins \in InsertEach(c, p, OracleMap(api.data), order, 1) }
               : order \in RangeOrders(OracleMap(api.data)) }
          : api \in QueryForCards }

SOutcome(c, p, err, card, calls) ==
    ROutcome(c, p, <<>>, err, err # Nil, IF err = Nil THEN <<card>> ELSE <<>>,
             <<>>, calls, FALSE)

\* findCard searching the name a second time when the exact lookup fails
findCard_SearchesAgain(c, p, cardQuery) ==
    IF \E f \in FetchCardByExactName(c, p, cardQuery) : f.err = Nil
    THEN {SOutcome(c, p, Nil, f.card, 0) : f \in FetchCardByExactName(c, p, cardQuery)}
    ELSE UNION {
           IF api.err # Nil
           THEN UNION {
                  IF again.err # Nil \/ Len(again.data) # 1
                  THEN {SOutcome(c, p, api.err, NoCard, 2)}
                  ELSE { SOutcome(o.cards, o.printings, o.err, o.card, 2 + o.calls)
                         : o \in InsertCardFromAPI(c, p, again.data[1]) }
                  : again \in QueryForCards }
           ELSE { SOutcome(o.cards, o.printings, o.err, o.card, 1 + o.calls)
                  : o \in InsertCardFromAPI(c, p, api.data[1]) }
           : api \in QueryForSpecificCard }

\* findCard: the possible outcomes of QueryCard(cardQuery)
findCard(c, p, cardQuery) ==
    IF \E f \in FetchCardByExactName(c, p, cardQuery) : f.err = Nil
    THEN {SOutcome(c, p, Nil, f.card, 0) : f \in FetchCardByExactName(c, p, cardQuery)}
    ELSE UNION {
           IF api.err # Nil THEN {SOutcome(c, p, api.err, NoCard, 1)}
           ELSE { SOutcome(o.cards, o.printings, o.err, o.card, 1 + o.calls)
                  : o \in InsertCardFromAPI(c, p, api.data[1]) }
           : api \in QueryForSpecificCard }

\* findCardOracleID without the lookup in the store
findCardOracleID_AlwaysFetches(c, p, oracleID) ==
    UNION {
      IF api.err # Nil THEN {SOutcome(c, p, api.err, NoCard, 1)}
      ELSE { SOutcome(o.cards, o.printings, o.err, o.card, 1 + o.calls)
             : o \in InsertCardFromAPI(c, p, api.data[1]) }
      : api \in QueryForSpecificCard }

\* findCardOracleID: the possible outcomes of QueryCardByOracleID(oracleID)
findCardOracleID(c, p, oracleID) ==
    IF GetCardByOracleID(c, oracleID) # {}
    THEN {SOutcome(c, p, Nil, buildMagicCardFromDB(c, p, oracleID), 0)}
    ELSE UNION {
           IF api.err # Nil THEN {SOutcome(c, p, api.err, NoCard, 1)}
           ELSE { SOutcome(o.cards, o.printings, o.err, o.card, 1 + o.calls)
                  : o \in InsertCardFromAPI(c, p, api.data[1]) }
           : api \in QueryForSpecificCard }

----------------------------------------------------------------------------
(* The public resolver calls, one caller at a time *)

OracleIDsOf(result) == [i \in 1..Len(result) |-> result[i].OracleID]

Call(op, query, name, oracleID, o, inStore, missing, cached) ==
    [op |-> op, query |-> query, name |-> name, oracleID |-> oracleID,
     err |-> o.err, isNil |-> o.isNil, result |-> o.result, calls |-> o.calls,
     inStore |-> inStore, missing |-> missing, cached |-> cached,
     seen |-> IF "seen" \in DOMAIN o THEN o.seen ELSE <<>>]

NoCall ==
    [op |-> "none", query |-> "", name |-> <<>>, oracleID |-> "", err |-> Nil,
     isNil |-> TRUE, result |-> <<>>, calls |-> 0, inStore |-> FALSE,
     missing |-> FALSE, cached |-> FALSE, seen |-> <<>>]

\* the query has a QueryCacheEntry
IsCached(query) == GetCachedQuery(queryCache, query) # <<>>

\* the query's QueryCacheEntry lists an oracle id that has no CardRecord
HasDangling(query) ==
    /\ IsCached(query)
    /\ LET ids == GetCachedQuery(queryCache, query)[1].oracle_ids
       IN  \E i \in 1..Len(ids) : GetCardByOracleID(cards, ids[i]) = {}

\* Scryball.Query
Query(query) ==
    /\ pc = "idle"
    /\ \E o \in {Unseen(x) : x \in findQuery(cards, printings, queryCache, query)} :
         /\ cards' = o.cards
         /\ printings' = o.printings
         /\ queryCache' = o.queryCache
         /\ last' = Call("Query", query, <<>>, "", o, IsCached(query),
                         HasDangling(query), o.cached)
    /\ UNCHANGED <<parserVars, validatorVars, callerVars, instanceVars>>

\* Scryball.Query, the record of the call keeping what the remote answered
QueryAnswered(query) ==
    /\ pc = "idle"
    /\ \E o \in findQuery(cards, printings, queryCache, query) :
         /\ cards' = o.cards
         /\ printings' = o.printings
         /\ queryCache' = o.queryCache
         /\ last' = Call("Query", query, <<>>, "", o, IsCached(query),
                         HasDangling(query), o.cached)
    /\ UNCHANGED <<parserVars, validatorVars, callerVars, instanceVars>>

\* Scryball.FetchCardsByQuery
FetchCardsByQueryCall(query) ==
    /\ pc = "idle"
    /\ LET f == FetchCardsByQuery(cards, printings, queryCache, query)
       IN  last' = Call("FetchCardsByQuery", query, <<>>, "",
                        [err |-> f.err, isNil |-> f.isNil, result |-> f.result,
                         calls |-> 0],
                        IsCached(query), HasDangling(query), FALSE)
    /\ UNCHANGED <<cards, printings, queryCache>>
    /\ UNCHANGED <<parserVars, validatorVars, callerVars, instanceVars>>

\* Scryball.QueryCard
QueryCard(cardQuery) ==
    /\ pc = "idle"
    /\ \E o \in findCard(cards, printings, cardQuery) :
         /\ cards' = o.cards
         /\ printings' = o.printings
         /\ last' = Call("QueryCard", "", cardQuery, "", o,
                         GetCardByName(cards, cardQuery) # {}, FALSE, FALSE)
    /\ UNCHANGED queryCache
    /\ UNCHANGED <<parserVars, validatorVars, callerVars, instanceVars>>

\* Scryball.QueryCardByOracleID
QueryCardByOracleID(oracleID) ==
    /\ pc = "idle"
    /\ \E o \in findCardOracleID(cards, printings, oracleID) :
         /\ cards' = o.cards
         /\ printings' = o.printings
         /\ last' = Call("QueryCardByOracleID", "", <<>>, oracleID, o,
                         GetCardByOracleID(cards, oracleID) # {}, FALSE, FALSE)
    /\ UNCHANGED queryCache
    /\ UNCHANGED <<parserVars, validatorVars, callerVars, instanceVars>>

\* Scryball.FetchCardByExactName
FetchCardByExactNameCall(name) ==
    /\ pc = "idle"
    /\ \E f \in FetchCardByExactName(cards, printings, name) :
         last' = Call("FetchCardByExactName", "", name, "",
                      [err |-> f.err, isNil |-> f.err # Nil,
                       result |-> IF f.err = Nil THEN <<f.card>> ELSE <<>>,
                       calls |-> 0],
                      GetCardByName(cards, name) # {}, FALSE, FALSE)
    /\ UNCHANGED <<cards, printings, queryCache>>
    /\ UNCHANGED <<parserVars, validatorVars, callerVars, instanceVars>>

\* Scryball.FetchCardByExactOracleID
FetchCardByExactOracleIDCall(oracleID) ==
    /\ pc = "idle"
    /\ LET f == FetchCardByExactOracleID(cards, printings, oracleID)
       IN  last' = Call("FetchCardByExactOracleID", "", <<>>, oracleID,
                        [err |-> f.err, isNil |-> f.err # Nil,
                         result |-> IF f.err = Nil THEN <<f.card>> ELSE <<>>,
                         calls |-> 0],
                        GetCardByOracleID(cards, oracleID) # {}, FALSE, FALSE)
    /\ UNCHANGED <<cards, printings, queryCache>>
    /\ UNCHANGED <<parserVars, validatorVars, callerVars, instanceVars>>

ResolverNext ==
    \/ \E q \in Queries : Query(q)
    \/ \E q \in Queries : FetchCardsByQueryCall(q)
    \/ \E n \in QueryNames : QueryCard(n)
    \/ \E o \in OracleIdInputs : QueryCardByOracleID(o)
    \/ \E n \in QueryNames : FetchCardByExactNameCall(n)
    \/ \E o \in OracleIds : FetchCardByExactOracleIDCall(o)

----------------------------------------------------------------------------

(* decklist.go *)

EmptyDecklist == [Maindeck |-> <<>>, Sideboard |-> <<>>]

Deck == <<"D", "e", "c", "k">>
Sideboard == <<"S", "i", "d", "e", "b", "o", "a", "r", "d">>
About == <<"A", "b", "o", "u", "t">>
Name == <<"N", "a", "m", "e">>

\* parseCardLine: [err, quantity, cardName]
parseCardLine(line) ==
    LET parenStart == LastIndex(line, "(")
        parenEnd == LastIndex(line, ")")
        fields(text) ==
            LET parts == SplitN2(text)
            IN  IF Len(parts) < 2
                THEN [err |-> "invalid format", quantity |-> 0, cardName |-> <<>>]
                ELSE IF ~Atoi(parts[1]).ok
                THEN [err |-> "invalid quantity", quantity |-> 0, cardName |-> <<>>]
                ELSE [err |-> Nil, quantity |-> Atoi(parts[1]).val,
                      cardName |-> TrimSpace(parts[2])]
    IN  IF parenStart # 0 /\ parenEnd # 0 /\ parenStart < parenEnd
        THEN fields(TrimSpace(SubSeq(line, 1, parenStart - 1)))
        ELSE fields(line)

RECURSIVE SumQty(_)
SumQty(list) == IF list = <<>> THEN 0 ELSE Head(list).qty + SumQty(Tail(list))

NumberOfCards(d) == SumQty(d.Maindeck)

NumberOfSideboardCards(d) == SumQty(d.Sideboard)

\* doesCardExistInMap comparing the map's keys, which are pointers to cards
\* built by earlier lines, with the pointer to the card just built
doesCardExistInMap_ByPointer(magicCard, list) == {}

\* doesCardExistInMap: the entries of the section whose card has the oracle id
doesCardExistInMap(magicCard, list) ==
    {k \in 1..Len(list) : list[k].card.OracleID = magicCard.OracleID}

\* parseDecklist lines 158-168: the section after the line's card is added
\* (one result for each entry the scan of the map can stop at)
AddToSection(list, magicCard, quantity) ==
    IF doesCardExistInMap(magicCard, list) # {}
    THEN {[list EXCEPT ![k].qty = list[k].qty + quantity] :
             k \in doesCardExistInMap(magicCard, list)}
    ELSE {Append(list, [card |-> [OracleID |-> magicCard.OracleID,
                                  Name |-> magicCard.Name],
                        qty |-> quantity])}

\* the resolution taking the first found record when no name matches
ResolveLine_TakesFirst(c, p, cardName) ==
    IF \E f \in FetchCardByExactName(c, p, cardName) : f.err = Nil
    THEN {Outcome(c, p, Nil, f.card, 0) : f \in FetchCardByExactName(c, p, cardName)}
    ELSE
      LET found(first) ==
              IF first.err # Nil \/ Len(first.data) = 0
              THEN {[err |-> IF second.err # Nil \/ Len(second.data) = 0
                             THEN "card not found" ELSE Nil,
                     data |-> second.data,
                     seen |-> <<first, second>>] : second \in QueryForCards}
              ELSE {[err |-> Nil, data |-> first.data, seen |-> <<first>>]}
          pick(apiCards) ==
              LET exact == {k \in 1..Len(apiCards) : EqualFold(apiCards[k].name, cardName)}
              IN  IF exact # {}
                  THEN <<apiCards[CHOOSE k \in exact : \A j \in exact : k <= j]>>
                  ELSE IF Len(apiCards) >= 1 THEN <<apiCards[1]>>
                  ELSE <<>>
          names(apiCards) == [k \in 1..Len(apiCards) |-> apiCards[k].name]
      IN  UNION { UNION {
            IF s.err # Nil
            THEN {Seen(Outcome(c, p, s.err, NoCard, Len(s.seen)), s.seen)}
            ELSE IF pick(s.data) = <<>>
            THEN {[listed |-> names(s.data)]
                  @@ Seen(Outcome(c, p, "ambiguous card name", NoCard, Len(s.seen)),
                          s.seen)}
            ELSE { Seen(IF o.err # Nil
                        THEN Outcome(o.cards, o.printings, "failed to cache card", NoCard,
                                     Len(s.seen) + o.calls)
                        ELSE [o EXCEPT !.calls = Len(s.seen) + o.calls],
                        s.seen)
                   : o \in InsertCardFromAPI(c, p, pick(s.data)[1]) }
            : s \in found(first) } : first \in QueryForCards }

\* parseDecklist lines 103-149: the possible ways of resolving the card name,
\* as [cards, printings, err, card, calls], with the answers of the searches
\* (seen) and the names an ambiguity error lists (listed)
ResolveLine(c, p, cardName) ==
    IF \E f \in FetchCardByExactName(c, p, cardName) : f.err = Nil
    THEN {Outcome(c, p, Nil, f.card, 0) : f \in FetchCardByExactName(c, p, cardName)}
    ELSE
      LET found(first) ==
              IF first.err # Nil \/ Len(first.data) = 0
              THEN {[err |-> IF second.err # Nil \/ Len(second.data) = 0
                             THEN "card not found" ELSE Nil,
                     data |-> second.data,
                     seen |-> <<first, second>>] : second \in QueryForCards}
              ELSE {[err |-> Nil, data |-> first.data, seen |-> <<first>>]}
          pick(apiCards) ==
              LET exact == {k \in 1..Len(apiCards) : EqualFold(apiCards[k].name, cardName)}
              IN  IF exact # {}
                  THEN <<apiCards[CHOOSE k \in exact : \A j \in exact : k <= j]>>
                  ELSE IF Len(apiCards) = 1 THEN <<apiCards[1]>>
                  ELSE <<>>
          names(apiCards) == [k \in 1..Len(apiCards) |-> apiCards[k].name]
      IN  UNION { UNION {
            IF s.err # Nil
            THEN {Seen(Outcome(c, p, s.err, NoCard, Len(s.seen)), s.seen)}
            ELSE IF pick(s.data) = <<>>
            THEN {[listed |-> names(s.data)]
                  @@ Seen(Outcome(c, p, "ambiguous card name", NoCard, Len(s.seen)),
                          s.seen)}
            ELSE { Seen(IF o.err # Nil
                        THEN Outcome(o.cards, o.printings, "failed to cache card", NoCard,
                                     Len(s.seen) + o.calls)
                        ELSE [o EXCEPT !.calls = Len(s.seen) + o.calls],
                        s.seen)
                   : o \in InsertCardFromAPI(c, p, pick(s.data)[1]) }
            : s \in found(first) } : first \in QueryForCards }

\* a Sideboard marker accepted however many came before
SideboardMarkerError_Never(seen) == Nil

\* parseDecklist lines 88-90: the error of a Sideboard marker, Nil when it is the first
SideboardMarkerError(seen) == IF seen THEN "cannot have sideboard twice" ELSE Nil

\* the limit off by one
SideboardExceeds_Above16(total) == total > 16

\* parseDecklist line 154
SideboardExceeds(total) == total > 15

\* an error path that returns the Decklist accumulated so far
Fail_ReturnsAccumulated(err, d, in) ==
    [done |-> TRUE, err |-> err, isNil |-> FALSE, decklist |-> d, input |-> in]

\* what parseDecklist returns on an error path: return nil, err
Fail(err, d, in) ==
    [done |-> TRUE, err |-> err, isNil |-> TRUE, decklist |-> EmptyDecklist,
     input |-> in]

\* what parseDecklist returns at line 173: return decklist, nil
Success(d, in) ==
    [done |-> TRUE, err |-> Nil, isNil |-> FALSE, decklist |-> d, input |-> in]

\* Decklist.String, for one order of iteration over each of the two maps
EntryLine(e) == Itoa(e.qty) \o <<" ">> \o e.card.Name \o <<"\n">>

RECURSIVE EntryLines(_, _)
EntryLines(list, order) ==
    IF order = <<>> THEN <<>>
    ELSE EntryLine(list[Head(order)]) \o EntryLines(list, Tail(order))

String(d, mainOrder, sideOrder) ==
    EntryLines(d.Maindeck, mainOrder)
    \o (IF Len(d.Sideboard) > 0
        THEN <<"\n">> \o Sideboard \o <<"\n">> \o EntryLines(d.Sideboard, sideOrder)
        ELSE <<>>)

Orders(list) == {s \in SeqsUpTo(1..Len(list), Len(list)) : Len(s) = Len(list)}

RECURSIVE Split(_)
\* strings.Split(s, "\n")
Split(s) ==
    LET k == Index(s, "\n")
    IN  IF k = 0 THEN <<s>>
        ELSE <<SubSeq(s, 1, k - 1)>> \o Split(SubSeq(s, k + 1, Len(s)))

----------------------------------------------------------------------------
(* Decklist texts *)

RECURSIVE Join(_)
Join(ls) ==
    IF Len(ls) = 1 THEN ls[1] ELSE ls[1] \o <<"\n">> \o Join(Tail(ls))

CardLines ==
    { <<"4", " ", "A">>,
      <<"4", " ", "A", " ", "(", "S", ")", " ", "1">>,
      <<"8", " ", "a">>,
      <<"8", " ", "B">> }

\* the lines a text given by the caller is made of
Lines ==
    CardLines
    \cup { <<>>, Deck, Sideboard, About, Name \o <<" ", "X">>,
           <<"x">>, <<"x", " ", "A">>, <<"-", "4", " ", "A">> }

\* the layout of the README and of TestParseArenaDecklist: a Deck marker, card
\* lines, a blank line, the Sideboard marker, card lines, a final newline
MarkerTexts ==
    { Join(<<Deck>> \o main \o <<<<>>, Sideboard>> \o side) \o <<"\n">> :
        main \in {<<l>> : l \in CardLines} \cup {<<l, m>> : l, m \in CardLines},
        side \in {<<l>> : l \in CardLines} }

\* the lines of the texts that try the section markers
SectionLines == {Deck, Sideboard, <<"4", " ", "A">>}

\* every text of up to MaxLines lines, each a section marker or a card line
SectionTexts ==
    UNION { [1..n -> SectionLines] : n \in 1..MaxLines }

RECURSIVE StatedTotals(_, _, _)
\* the sums of the quantities written before and after the Sideboard marker
StatedTotals(ls, inSide, acc) ==
    IF ls = <<>> THEN acc
    ELSE IF Head(ls) = Sideboard THEN StatedTotals(Tail(ls), TRUE, acc)
    ELSE LET q == IF Head(ls) \in CardLines THEN Atoi(SplitN2(Head(ls))[1]).val ELSE 0
         IN  StatedTotals(Tail(ls), inSide,
                 IF inSide THEN [acc EXCEPT !.side = @ + q]
                 ELSE [acc EXCEPT !.main = @ + q])

----------------------------------------------------------------------------
(* decklist.go: the validators *)

Mountain == <<"M", "o", "u", "n", "t", "a", "i", "n">>
RelentlessRats == <<"R", "e", "l", "e", "n", "t", "l", "e", "s", "s", " ", "R", "a", "t", "s">>

\* isBasicLandName: slices.Contains(basicLands, name)
basicLands ==
    { <<"P", "l", "a", "i", "n", "s">>,
      <<"I", "s", "l", "a", "n", "d">>,
      <<"S", "w", "a", "m", "p">>,
      <<"M", "o", "u", "n", "t", "a", "i", "n">>,
      <<"F", "o", "r", "e", "s", "t">>,
      <<"S", "n", "o", "w", "-", "C", "o", "v", "e", "r", "e", "d", " ", "P", "l", "a", "i", "n", "s">>,
      <<"S", "n", "o", "w", "-", "C", "o", "v", "e", "r", "e", "d", " ", "I", "s", "l", "a", "n", "d">>,
      <<"S", "n", "o", "w", "-", "C", "o", "v", "e", "r", "e", "d", " ", "S", "w", "a", "m", "p">>,
      <<"S", "n", "o", "w", "-", "C", "o", "v", "e", "r", "e", "d", " ", "M", "o", "u", "n", "t", "a", "i", "n">>,
      <<"S", "n", "o", "w", "-", "C", "o", "v", "e", "r", "e", "d", " ", "F", "o", "r", "e", "s", "t">>,
      <<"W", "a", "s", "t", "e", "s">>,
      <<"S", "n", "o", "w", "-", "C", "o", "v", "e", "r", "e", "d", " ", "W", "a", "s", "t", "e", "s">> }

isBasicLandName(name) == name \in basicLands

isBasicLand(card) == isBasicLandName(card.Name)

\* isSpecialCardName: strings.EqualFold(name, special) for some special
specialCards ==
    { <<"R", "e", "l", "e", "n", "t", "l", "e", "s", "s", " ", "R", "a", "t", "s">>,
      <<"S", "h", "a", "d", "o", "w", "b", "o", "r", "n", " ", "A", "p", "o", "s", "t", "l", "e">>,
      <<"R", "a", "t", " ", "C", "o", "l", "o", "n", "y">>,
      <<"P", "e", "r", "s", "i", "s", "t", "e", "n", "t", " ", "P", "e", "t", "i", "t", "i", "o", "n", "e", "r", "s">>,
      <<"D", "r", "a", "g", "o", "n", "'", "s", " ", "A", "p", "p", "r", "o", "a", "c", "h">>,
      <<"S", "e", "v", "e", "n", " ", "D", "w", "a", "r", "v", "e", "s">>,
      <<"N", "a", "z", "g", "û", "l">> }

isSpecialCardName(name) == \E special \in specialCards : EqualFold(name, special)

isSpecialCard(card) == isSpecialCardName(card.Name)

RECURSIVE CopiesIn(_, _)
\* the loops of ValidateDecklist lines 421-426: totalCopies[card.Name] += qty
CopiesIn(list, name) ==
    IF list = <<>> THEN 0
    ELSE (IF Head(list).card.Name = name THEN Head(list).qty ELSE 0)
         + CopiesIn(Tail(list), name)

\* only the first loop
TotalCopies_MaindeckOnly(d) ==
    [name \in {d.Maindeck[i].card.Name : i \in 1..Len(d.Maindeck)}
             \cup {d.Sideboard[i].card.Name : i \in 1..Len(d.Sideboard)}
        |-> CopiesIn(d.Maindeck, name)]

TotalCopies(d) ==
    [name \in {d.Maindeck[i].card.Name : i \in 1..Len(d.Maindeck)}
             \cup {d.Sideboard[i].card.Name : i \in 1..Len(d.Sideboard)}
        |-> CopiesIn(d.Maindeck, name) + CopiesIn(d.Sideboard, name)]

\* ValidateDecklist without its last loop
ValidateDecklist_SizesOnly(d, minCards, maxCards, maxSideboard) ==
    IF NumberOfCards(d) < minCards THEN "maindeck below minimum"
    ELSE IF maxCards > 0 /\ NumberOfCards(d) > maxCards THEN "maindeck above maximum"
    ELSE IF NumberOfSideboardCards(d) > maxSideboard THEN "sideboard above maximum"
    ELSE Nil

\* ValidateDecklist: Nil, or which error it returns
ValidateDecklist(d, minCards, maxCards, maxSideboard) ==
    LET mainTotal == NumberOfCards(d)
        sideTotal == NumberOfSideboardCards(d)
        totalCopies == TotalCopies(d)
    IN  IF mainTotal < minCards THEN "maindeck below minimum"
        ELSE IF maxCards > 0 /\ mainTotal > maxCards THEN "maindeck above maximum"
        ELSE IF sideTotal > maxSideboard THEN "sideboard above maximum"
        ELSE IF \E cardName \in DOMAIN totalCopies :
                   /\ totalCopies[cardName] > 4
                   /\ ~isBasicLandName(cardName)
                   /\ ~isSpecialCardName(cardName)
        THEN "copies between maindeck and sideboard, maximum is 4"
        ELSE Nil

ValidateFourOfs(d) ==
    IF \E i \in 1..Len(d.Maindeck) :
          /\ d.Maindeck[i].qty > 4
          /\ ~isBasicLand(d.Maindeck[i].card)
          /\ ~isSpecialCard(d.Maindeck[i].card)
    THEN "maindeck copies, maximum is 4"
    ELSE Nil

\* ValidateConstructed: the result of ValidateFourOfs is dropped
ValidateConstructed(d) == ValidateDecklist(d, 60, 0, 15)

ValidateLimited(d) == ValidateDecklist(d, 40, 0, 0)

\* The Decklists handed to the validators: Maindeck and Sideboard are exported
\* maps, so any entries can be there. A is an ordinary card.
Entry(oracleID, name, qty) == [card |-> [OracleID |-> oracleID, Name |-> name], qty |-> qty]

Entries(oracleID, name, qtys) ==
    {<<>>} \cup {<<Entry(oracleID, name, q)>> : q \in qtys}

Decklists ==
    { [Maindeck |-> a \o m \o r, Sideboard |-> sa \o sm] :
        a \in Entries("o1", NameA, {3, 4, 5}),
        m \in Entries("o3", Mountain, {36, 40, 56, 57}),
        r \in Entries("o4", RelentlessRats, {5}),
        sa \in Entries("o1", NameA, {0 - 1, 1, 3}),
        sm \in Entries("o3", Mountain, {12, 15}) }

NoVerdict ==
    [op |-> "none", minCards |-> 0, maxCards |-> 0, maxSideboard |-> 0, err |-> Nil]

Verdict(op, minCards, maxCards, maxSideboard, err) ==
    [op |-> op, minCards |-> minCards, maxCards |-> maxCards,
     maxSideboard |-> maxSideboard, err |-> err]

ValidateDecklistCall(minCards, maxCards, maxSideboard) ==
    /\ verdict' = Verdict("ValidateDecklist", minCards, maxCards, maxSideboard,
                          ValidateDecklist(deck, minCards, maxCards, maxSideboard))
    /\ UNCHANGED <<deck, resolverVars, parserVars, callerVars, instanceVars>>

ValidateConstructedCall ==
    /\ verdict' = Verdict("ValidateConstructed", 0, 0, 0, ValidateConstructed(deck))
    /\ UNCHANGED <<deck, resolverVars, parserVars, callerVars, instanceVars>>

ValidateLimitedCall ==
    /\ verdict' = Verdict("ValidateLimited", 0, 0, 0, ValidateLimited(deck))
    /\ UNCHANGED <<deck, resolverVars, parserVars, callerVars, instanceVars>>

ValidateFourOfsCall ==
    /\ verdict' = Verdict("ValidateFourOfs", 0, 0, 0, ValidateFourOfs(deck))
    /\ UNCHANGED <<deck, resolverVars, parserVars, callerVars, instanceVars>>

ValidatorNext ==
    \/ \E minCards \in {0, 40, 60}, maxCards \in {0, 60}, maxSideboard \in {0, 15} :
          ValidateDecklistCall(minCards, maxCards, maxSideboard)
    \/ ValidateConstructedCall
    \/ ValidateLimitedCall
    \/ ValidateFourOfsCall

----------------------------------------------------------------------------
(* parseDecklist, one line of the text per step *)

NoInput == [kind |-> "any", main |-> 0, side |-> 0]

NoParse ==
    [done |-> FALSE, err |-> Nil, isNil |-> TRUE, decklist |-> EmptyDecklist,
     input |-> NoInput]

StartParse(in, lines) ==
    /\ pc = "idle"
    /\ pc' = "parsing"
    /\ lineNo' = 0
    /\ hasAbout' = FALSE
    /\ inDeck' = FALSE
    /\ inSideboard' = FALSE
    /\ sideboardTotal' = 0
    /\ decklist' = EmptyDecklist
    /\ input' = in
    /\ rest' = lines
    /\ lastParse' = NoParse
    /\ UNCHANGED <<resolverVars, validatorVars, callerVars, instanceVars>>

\* ParseDecklist(text) for a text whose lines the steps choose as they go
ParseDecklist == StartParse([kind |-> "any", main |-> 0, side |-> 0], <<>>)

\* ParseDecklist(text) for a text of the README layout
ParseMarkerText ==
    \E t \in MarkerTexts :
        LET tot == StatedTotals(Split(t), FALSE, [main |-> 0, side |-> 0])
        IN  StartParse([kind |-> "marker", main |-> tot.main, side |-> tot.side],
                       Split(t))

\* ParseDecklist(text) for a text of section markers and card lines
ParseSectionText ==
    \E t \in SectionTexts :
        StartParse([kind |-> "sections", main |-> 0, side |-> 0, text |-> t], t)

\* ParseDecklist(D.String()) for the Decklist D the last parse returned
ParseExported ==
    /\ lastParse.done /\ ~lastParse.isNil
    /\ \E mo \in Orders(lastParse.decklist.Maindeck),
          so \in Orders(lastParse.decklist.Sideboard) :
         StartParse([kind |-> "export", main |-> NumberOfCards(lastParse.decklist),
                     side |-> NumberOfSideboardCards(lastParse.decklist)],
                    Split(String(lastParse.decklist, mo, so)))

Return(result) ==
    /\ pc' = "idle"
    /\ lastParse' = result
    /\ lineNo' = 0
    /\ input' = NoInput
    /\ rest' = <<>>

Continue ==
    /\ pc' = "parsing"
    /\ lineNo' = lineNo + 1
    /\ rest' = IF input.kind = "any" THEN rest ELSE Tail(rest)
    /\ UNCHANGED <<input, lastParse>>

\* the body of the loop of parseDecklist for lines[lineNo] = raw
ParseLine(raw) ==
    LET line == TrimSpace(raw)
        i == lineNo
    IN
    /\ pc = "parsing"
    /\ IF i = 0 /\ EqualFold(line, About)
       THEN /\ hasAbout' = TRUE
            /\ Continue
            /\ UNCHANGED <<inDeck, inSideboard, sideboardTotal, decklist, cards, printings>>
       ELSE IF i = 1 /\ hasAbout
       THEN /\ IF EqualFold(FirstField(line), Name)
               THEN Continue
               ELSE Return(Fail("must have deck name", decklist, input))
            /\ UNCHANGED <<hasAbout, inDeck, inSideboard, sideboardTotal, decklist,
                           cards, printings>>
       ELSE IF ~inDeck /\ line = <<>>
       THEN /\ Continue
            /\ UNCHANGED <<hasAbout, inDeck, inSideboard, sideboardTotal, decklist,
                           cards, printings>>
       ELSE IF EqualFold(line, Deck)
       THEN /\ IF inDeck
               THEN /\ Return(Fail("already parsing Deck", decklist, input))
                    /\ UNCHANGED inDeck
               ELSE /\ inDeck' = TRUE
                    /\ IF inSideboard
                       THEN Return(Fail("already submitting sideboard", decklist, input))
                       ELSE Continue
            /\ UNCHANGED <<hasAbout, inSideboard, sideboardTotal, decklist, cards,
                           printings>>
       ELSE IF EqualFold(line, Sideboard)
       THEN /\ IF SideboardMarkerError(inSideboard) # Nil
               THEN /\ Return(Fail(SideboardMarkerError(inSideboard), decklist, input))
                    /\ UNCHANGED inSideboard
               ELSE /\ inSideboard' = TRUE
                    /\ Continue
            /\ UNCHANGED <<hasAbout, inDeck, sideboardTotal, decklist, cards, printings>>
       ELSE IF parseCardLine(line).err # Nil
       THEN /\ Return(Fail(parseCardLine(line).err, decklist, input))
            /\ UNCHANGED <<hasAbout, inDeck, inSideboard, sideboardTotal, decklist,
                           cards, printings>>
       ELSE
         LET quantity == parseCardLine(line).quantity
             cardName == parseCardLine(line).cardName
         IN  \E r \in ResolveLine(cards, printings, cardName) :
               /\ cards' = r.cards
               /\ printings' = r.printings
               /\ UNCHANGED <<hasAbout, inDeck, inSideboard>>
               /\ IF r.err # Nil
                  THEN /\ Return(Fail(r.err, decklist, input))
                       /\ UNCHANGED <<sideboardTotal, decklist>>
                  ELSE IF inSideboard
                  THEN /\ sideboardTotal' = sideboardTotal + quantity
                       /\ IF SideboardExceeds(sideboardTotal + quantity)
                          THEN /\ Return(Fail("sideboard exceeds 15 cards",
                                              decklist, input))
                               /\ UNCHANGED decklist
                          ELSE /\ \E sb \in AddToSection(decklist.Sideboard, r.card,
                                                         quantity) :
                                     decklist' = [decklist EXCEPT !.Sideboard = sb]
                               /\ Continue
                  ELSE /\ \E md \in AddToSection(decklist.Maindeck, r.card, quantity) :
                             decklist' = [decklist EXCEPT !.Maindeck = md]
                       /\ UNCHANGED sideboardTotal
                       /\ Continue
    /\ UNCHANGED <<queryCache, last, validatorVars, callerVars, instanceVars>>

\* a step of the loop on a text whose lines are chosen as they are read
ParseAnyLine ==
    /\ input.kind = "any"
    /\ lineNo < MaxLines
    /\ \E raw \in Lines : ParseLine(raw)

\* a step of the loop on a given text
ParseGivenLine ==
    /\ input.kind # "any"
    /\ rest # <<>>
    /\ ParseLine(Head(rest))

\* the loop is over: return decklist, nil.  strings.Split never returns an
\* empty slice, so at least one line was read.
ParseDone ==
    /\ pc = "parsing"
    /\ IF input.kind = "any" THEN lineNo >= 1 ELSE rest = <<>>
    /\ Return(Success(decklist, input))
    /\ UNCHANGED <<hasAbout, inDeck, inSideboard, sideboardTotal, decklist,
                   resolverVars, validatorVars, callerVars, instanceVars>>

ParserNext ==
    \/ ParseDecklist
    \/ ParseMarkerText
    \/ ParseExported
    \/ ParseAnyLine
    \/ ParseGivenLine
    \/ ParseDone

----------------------------------------------------------------------------
(* One card line of parseDecklist at a time *)

\* the names a card line can ask for
LineNames == {NameALower, NameB, NameBU}

\* the quantities a card line can state
LineQuantities == {1, 4}

\* the "(setcode) collector-number" suffix of an exported line
SetSuffix == <<" ", "(", "S", ")", " ", "1">>

\* parseDecklist lines 100-149: the card of one line is resolved
ResolveLineCall(cardName) ==
    /\ pc = "idle"
    /\ \E r \in ResolveLine(cards, printings, cardName) :
         /\ cards' = r.cards
         /\ printings' = r.printings
         /\ last' = [listed |-> IF "listed" \in DOMAIN r THEN r.listed ELSE <<>>]
                    @@ Call("ResolveLine", "", cardName, "",
                            [err |-> r.err, isNil |-> r.err # Nil,
                             result |-> IF r.err = Nil THEN <<r.card>> ELSE <<>>,
                             calls |-> r.calls,
                             seen |-> IF "seen" \in DOMAIN r THEN r.seen ELSE <<>>],
                            GetCardByName(cards, cardName) # {}, FALSE, FALSE)
    /\ UNCHANGED queryCache
    /\ UNCHANGED <<parserVars, validatorVars, callerVars, instanceVars>>

\* parseCardLine applied to the line "quantity name" and to the same line
\* followed by a set code and a collector number
ParseCardLineCall(quantity, cardName) ==
    /\ pc = "idle"
    /\ LET line == Itoa(quantity) \o <<" ">> \o cardName
       IN  last' = [op |-> "parseCardLine", name |-> cardName, quantity |-> quantity,
                    plain |-> parseCardLine(line),
                    suffixed |-> parseCardLine(line \o SetSuffix)] @@ NoCall
    /\ UNCHANGED <<cards, printings, queryCache>>
    /\ UNCHANGED <<parserVars, validatorVars, callerVars, instanceVars>>

LineNext ==
    \/ \E n \in LineNames : ResolveLineCall(n)
    \/ \E q \in LineQuantities, n \in LineNames : ParseCardLineCall(q, n)

----------------------------------------------------------------------------

ParserInit ==
    /\ pc = "idle"
    /\ lineNo = 0
    /\ hasAbout = FALSE
    /\ inDeck = FALSE
    /\ inSideboard = FALSE
    /\ sideboardTotal = 0
    /\ decklist = EmptyDecklist
    /\ input = NoInput
    /\ rest = <<>>
    /\ lastParse = NoParse

\* no caller is in a call and the mutex is free
\* part_004 lines 15-19: the package's variables before any call
InstanceInit ==
    /\ CurrentScryball = Nil
    /\ initOnce = FALSE

CallersInit ==
    /\ mu = Nil
    /\ proc = <<>>

\* a new instance on a new database: every table empty
Init ==
    /\ cards = <<>>
    /\ printings = [id \in PrintingIds |-> NoRow]
    /\ queryCache = <<>>
    /\ last = NoCall
    /\ ParserInit
    /\ InstanceInit
    /\ deck = EmptyDecklist
    /\ verdict = NoVerdict
    /\ CallersInit

\* the resolver, called by one caller at a time
Next == ResolverNext

Spec == Init /\ [][Next]_vars

\* the decklist parser, called by one caller at a time
NextDeck == ParserNext

SpecDeck == Init /\ [][NextDeck]_vars

\* the query texts asked in SpecAnswered
AnsweredQueries == {"q1"}

NextAnswered == \E q \in AnsweredQueries : QueryAnswered(q)

SpecAnswered == Init /\ [][NextAnswered]_vars

NextSections ==
    \/ ParseSectionText
    \/ ParseGivenLine
    \/ ParseDone

SpecSections == Init /\ [][NextSections]_vars

----------------------------------------------------------------------------
(* The package's default instance *)

\* ensureCurrentScryball: the possible [current, once, instance, err], current
\* and once being the package's variables after the call, instance and err
\* what the call returns.  createDefaultInstance succeeds or fails.
ensureCurrentScryball(current, once) ==
    IF ~once
    THEN IF current = Nil
         THEN { [current |-> "default", once |-> TRUE, instance |-> "default",
                 err |-> Nil],
                [current |-> Nil, once |-> TRUE, instance |-> Nil,
                 err |-> "failed to create default instance"] }
         ELSE { [current |-> current, once |-> TRUE, instance |-> current, err |-> Nil] }
    ELSE { [current |-> current, once |-> once, instance |-> current, err |-> Nil] }

\* a call of ensureCurrentScryball
EnsureCurrentScryballCall ==
    /\ pc = "idle"
    /\ \E e \in ensureCurrentScryball(CurrentScryball, initOnce) :
         /\ CurrentScryball' = e.current
         /\ initOnce' = e.once
         /\ last' = [op |-> "ensureCurrentScryball", instance |-> e.instance,
                     err |-> e.err] @@ NoCall
    /\ UNCHANGED <<cards, printings, queryCache>>
    /\ UNCHANGED <<parserVars, validatorVars, callerVars>>

\* CurrentScryball = sb, for an instance sb made on a new database
InstallInstance ==
    /\ pc = "idle"
    /\ CurrentScryball' = "configured"
    /\ cards' = <<>>
    /\ printings' = [id \in PrintingIds |-> NoRow]
    /\ queryCache' = <<>>
    /\ last' = [op |-> "install"] @@ NoCall
    /\ UNCHANGED initOnce
    /\ UNCHANGED <<parserVars, validatorVars, callerVars>>

\* the package's function Query: ensureCurrentScryball, then findQuery on the
\* instance it returned; findQuery on a nil instance panics at its first use
\* of the instance's fields
GlobalQuery(query) ==
    /\ pc = "idle"
    /\ \E e \in ensureCurrentScryball(CurrentScryball, initOnce) :
         /\ CurrentScryball' = e.current
         /\ initOnce' = e.once
         /\ IF e.err # Nil \/ e.instance = Nil
            THEN /\ last' = [op |-> "GlobalQuery", query |-> query,
                             err |-> IF e.err # Nil THEN "failed to initialize scryball"
                                     ELSE "panic: nil pointer dereference"] @@ NoCall
                 /\ UNCHANGED <<cards, printings, queryCache>>
            ELSE \E o \in {Unseen(x) :
                             x \in findQuery(cards, printings, queryCache, query)} :
                   /\ cards' = o.cards
                   /\ printings' = o.printings
                   /\ queryCache' = o.queryCache
                   /\ last' = Call("GlobalQuery", query, <<>>, "", o, IsCached(query),
                                   HasDangling(query), o.cached)
    /\ UNCHANGED <<parserVars, validatorVars, callerVars>>

NextInstance ==
    \/ EnsureCurrentScryballCall
    \/ InstallInstance
    \/ \E q \in Queries : GlobalQuery(q)

SpecInstance == Init /\ [][NextInstance]_vars

NextLine == LineNext

SpecLine == Init /\ [][NextLine]_vars

\* an instance opened on a database file that already exists (ScryballConfig.DBPath):
\* the tables hold whatever the file holds
InitOpened ==
    /\ \E D \in SUBSET OracleIds :
          cards = [o \in D |-> (CHOOSE r \in RemoteCatalog : r.oracle_id = o).name]
    /\ printings = [id \in PrintingIds |->
                       LET o == (CHOOSE r \in RemoteCatalog : r.id = id).oracle_id
                       IN  IF o \in DOMAIN cards THEN o ELSE NoRow]
    /\ \E Q \in SUBSET Queries :
          \E ids \in [Q -> SeqsUpTo(OracleIds, 2)] :
             \E order \in SeqsUpTo(Q, Cardinality(Q)) :
                /\ Len(order) = Cardinality(Q)
                /\ queryCache = [k \in 1..Len(order) |->
                                   [query_text |-> order[k], oracle_ids |-> ids[order[k]],
                                    hit_count |-> 0]]
    /\ last = NoCall
    /\ ParserInit
    /\ InstanceInit
    /\ deck = EmptyDecklist
    /\ verdict = NoVerdict
    /\ CallersInit

SpecOpened == InitOpened /\ [][Next]_vars

----------------------------------------------------------------------------
(* Concurrent callers of one instance. A step is one statement on the store,
   one request to the remote client, or one operation on Scryball.mu. *)

Callers == {"c1", "c2"}

\* Each caller is a goroutine that makes one call, as in the README's example of
\* concurrent use. What the callers ask for, and what the remote answers when
\* it answers: the search finds cards o1 and o2, the exact name is card o1, and
\* the prints search returns every printing of the card and the record without
\* oracle_id.
ConcQueries == {"q1"}
ConcNames == {NameA}
ConcOracleIds == {"o1"}

Rec(id) == CHOOSE r \in RemoteCatalog : r.id = id

SearchAnswers ==
    {api \in QueryForCards : api.err # Nil \/ api.data = <<Rec("p1"), Rec("p3")>>}

NamedAnswers ==
    {api \in QueryForSpecificCard : api.err # Nil \/ api.data = <<Rec("p1")>>}

PrintingsAnswers(apiCard) ==
    {all \in FetchAllPrintings(apiCard) :
        \/ all.err # Nil
        \/ all.data = {r \in RemoteCatalog : r.oracle_id \in {apiCard.oracle_id, Null}}}

\* what InsertCardFromAPI has done with the printing history so far
NoHist == [fetchFailed |-> FALSE, fetched |-> {}, stored |-> {}, skipped |-> {}]

\* a caller that is in no call
IdleCaller ==
    [pc |-> "idle", op |-> "none", query |-> "", name |-> <<>>, oracleID |-> "",
     ctx |-> "live", todo |-> <<>>, cur |-> <<>>, prints |-> {}, ids |-> <<>>,
     found |-> "", card |-> <<>>, result |-> <<>>, err |-> Nil, hist |-> NoHist]

\* a statement on the store with this context fails
ContextDone(p) == p.ctx = "cancelled"

\* the call returns
Returns(p, err, result) ==
    [p EXCEPT !.pc = "done", !.err = err, !.result = result,
              !.todo = <<>>, !.cur = <<>>, !.prints = {}]

\* sync.Mutex.Lock always taking the mutex
CanLock_Always(m) == TRUE

\* sync.Mutex.Lock returns once the mutex is free
CanLock(m) == m = Nil

\* the caller enters one of the public calls with a live context
StartCall(self, op, query, name, oracleID) ==
    /\ proc[self].pc = "idle"
    /\ proc' = [proc EXCEPT ![self] =
                  [IdleCaller EXCEPT !.pc = IF op = "Query" THEN "lookup" ELSE "readCard",
                                     !.op = op, !.query = query, !.name = name,
                                     !.oracleID = oracleID]]
    /\ UNCHANGED <<mu, cards, printings, queryCache, uncalledVars, instanceVars>>

\* the caller cancels the context it passed to the call
Cancel(self) ==
    /\ proc[self].pc \notin {"idle", "done"}
    /\ proc[self].ctx = "live"
    /\ proc' = [proc EXCEPT ![self].ctx = "cancelled"]
    /\ UNCHANGED <<mu, cards, printings, queryCache, uncalledVars, instanceVars>>

\* findQuery lines 136-148: FetchCardsByQuery
QueryLookup(self) ==
    LET p == proc[self]
        f == FetchCardsByQuery(cards, printings, queryCache, p.query)
    IN  /\ p.pc = "lookup"
        /\ proc' = [proc EXCEPT ![self] =
                      IF ContextDone(p) THEN Returns(p, "failed to get cached query", <<>>)
                      ELSE IF f.err = Nil THEN Returns(p, Nil, f.result)
                      ELSE IF f.err = "sql.ErrNoRows" THEN [p EXCEPT !.pc = "search"]
                      ELSE Returns(p, f.err, <<>>)]
        /\ UNCHANGED <<mu, cards, printings, queryCache, uncalledVars, instanceVars>>

\* findQuery lines 151-169: QueryForCards, which takes no context, and oracleMap
RemoteSearch(self) ==
    LET p == proc[self]
    IN  /\ p.pc = "search"
        /\ \E api \in SearchAnswers :
             IF api.err # Nil
             THEN proc' = [proc EXCEPT ![self] = Returns(p, api.err, <<>>)]
             ELSE \E order \in RangeOrders(OracleMap(api.data)) :
                    proc' = [proc EXCEPT ![self] =
                               [p EXCEPT !.pc = "nextCard",
                                         !.todo = [i \in 1..Len(order) |->
                                                     OracleMap(api.data)[order[i]]]]]
        /\ UNCHANGED <<mu, cards, printings, queryCache, uncalledVars, instanceVars>>

\* findQuery line 175: the next key of oracleMap, or the end of the loop
NextCard(self) ==
    LET p == proc[self]
    IN  /\ p.pc = "nextCard"
        /\ proc' = [proc EXCEPT ![self] =
                      IF p.todo = <<>> THEN [p EXCEPT !.pc = "cacheLock"]
                      ELSE [p EXCEPT !.pc = "lock", !.cur = <<Head(p.todo)>>,
                                     !.todo = Tail(p.todo)]]
        /\ UNCHANGED <<mu, cards, printings, queryCache, uncalledVars, instanceVars>>

\* FetchCardByExactName line 117, FetchCardByExactOracleID line 145: the card row
ReadCard(self) ==
    LET p == proc[self]
        rows == IF p.op \in {"QueryCard", "FetchCardByExactName"}
                THEN GetCardByName(cards, p.name)
                ELSE GetCardByOracleID(cards, p.oracleID)
    IN  /\ p.pc = "readCard"
        /\ IF ContextDone(p)
           THEN proc' = [proc EXCEPT ![self] = Returns(p, "database error", <<>>)]
           ELSE IF rows # {}
           THEN \E o \in rows :
                   proc' = [proc EXCEPT ![self] = [p EXCEPT !.pc = "readPrintings",
                                                            !.found = o]]
           ELSE proc' = [proc EXCEPT ![self] =
                           IF p.op \in {"QueryCard", "QueryCardByOracleID"}
                           THEN [p EXCEPT !.pc = "named"]
                           ELSE Returns(p, "sql.ErrNoRows", <<>>)]
        /\ UNCHANGED <<mu, cards, printings, queryCache, uncalledVars, instanceVars>>

\* buildMagicCardFromDB line 225: getPrintingsFromDB, a second statement
ReadPrintings(self) ==
    LET p == proc[self]
    IN  /\ p.pc = "readPrintings"
        /\ proc' = [proc EXCEPT ![self] =
                      IF ContextDone(p) THEN Returns(p, "error fetching printings", <<>>)
                      ELSE Returns(p, Nil,
                             <<[OracleID |-> p.found,
                                Name |-> IF p.found \in DOMAIN cards
                                         THEN cards[p.found] ELSE <<>>,
                                Printings |-> GetPrintingsByOracleID(printings, p.found)]>>)]
        /\ UNCHANGED <<mu, cards, printings, queryCache, uncalledVars, instanceVars>>

\* findCard line 207, findCardOracleID: QueryForSpecificCard, which takes no context
RemoteNamed(self) ==
    LET p == proc[self]
    IN  /\ p.pc = "named"
        /\ \E api \in NamedAnswers :
             proc' = [proc EXCEPT ![self] =
                        IF api.err # Nil THEN Returns(p, api.err, <<>>)
                        ELSE [p EXCEPT !.pc = "lock", !.cur = api.data]]
        /\ UNCHANGED <<mu, cards, printings, queryCache, uncalledVars, instanceVars>>

\* what the caller of InsertCardFromAPI does with what it returned:
\* findQuery lines 177-183, findCard lines 212-217
AfterInsert(p) ==
    IF p.err # Nil THEN Returns(p, p.err, <<>>)
    ELSE IF p.op = "Query"
    THEN [p EXCEPT !.pc = "nextCard", !.cur = <<>>,
                   !.result = Append(p.result, p.card[1]),
                   !.ids = Append(p.ids, p.card[1].OracleID)]
    ELSE Returns(p, Nil, p.card)

\* InsertCardFromAPI lines 56-62: convertAPICardToDBParams, then s.mu.Lock()
Lock(self) ==
    LET p == proc[self]
    IN  /\ p.pc = "lock"
        /\ IF p.cur[1].oracle_id = Null
           THEN /\ proc' = [proc EXCEPT ![self] =
                              Returns(p, "could not convert API card to DB params", <<>>)]
                /\ UNCHANGED mu
           ELSE /\ CanLock(mu)
                /\ mu' = self
                /\ proc' = [proc EXCEPT ![self] =
                              [p EXCEPT !.pc = "upsertCard", !.card = <<>>, !.hist = NoHist]]
        /\ UNCHANGED <<cards, printings, queryCache, uncalledVars, instanceVars>>

\* InsertCardFromAPI lines 65-68: UpsertCard
UpsertCardStep(self) ==
    LET p == proc[self]
    IN  /\ p.pc = "upsertCard"
        /\ \/ /\ ~ContextDone(p)
              /\ cards' = UpsertCard(cards, p.cur[1])
              /\ proc' = [proc EXCEPT ![self].pc = "upsertPrinting"]
           \/ /\ proc' = [proc EXCEPT ![self].pc = "unlock",
                                      ![self].err = "could not upsert card"]
              /\ UNCHANGED cards
        /\ UNCHANGED <<mu, printings, queryCache, uncalledVars, instanceVars>>

\* InsertCardFromAPI lines 71-74: UpsertPrinting of the record itself
UpsertPrintingStep(self) ==
    LET p == proc[self]
    IN  /\ p.pc = "upsertPrinting"
        /\ \/ /\ ~ContextDone(p)
              /\ printings' = UpsertPrinting(printings, p.cur[1])
              /\ proc' = [proc EXCEPT ![self].pc = "fetchAll"]
           \/ /\ proc' = [proc EXCEPT ![self].pc = "unlock",
                                      ![self].err = "could not upsert printing"]
              /\ UNCHANGED printings
        /\ UNCHANGED <<mu, cards, queryCache, uncalledVars, instanceVars>>

\* InsertCardFromAPI lines 77-81: FetchAllPrintings, which takes no context
RemoteFetchAll(self) ==
    LET p == proc[self]
    IN  /\ p.pc = "fetchAll"
        /\ \E all \in PrintingsAnswers(p.cur[1]) :
             proc' = [proc EXCEPT ![self] =
                        IF all.err # Nil
                        THEN [p EXCEPT !.pc = "reread", !.hist.fetchFailed = TRUE]
                        ELSE [p EXCEPT !.pc = "printing", !.prints = all.data,
                                       !.hist.fetched = {r.id : r \in all.data}]]
        /\ UNCHANGED <<mu, cards, printings, queryCache, uncalledVars, instanceVars>>

\* a failed upsert of one printing ends the insertion with the error
AfterFailedPrinting_Returns(p, r) ==
    [p EXCEPT !.pc = "unlock", !.err = "could not upsert printing of the history"]

\* InsertCardFromAPI lines 98-100: continue
AfterFailedPrinting(p, r) ==
    [p EXCEPT !.prints = p.prints \ {r}, !.hist.skipped = p.hist.skipped \cup {r.id}]

\* InsertCardFromAPI lines 84-101: one turn of the loop over allPrintings
PrintingStep(self) ==
    LET p == proc[self]
        r == CHOOSE x \in p.prints : TRUE
    IN  /\ p.pc = "printing"
        /\ IF p.prints = {}
           THEN /\ proc' = [proc EXCEPT ![self].pc = "reread"]
                /\ UNCHANGED printings
           ELSE IF r.oracle_id = Null
           THEN /\ proc' = [proc EXCEPT ![self].prints = p.prints \ {r},
                                        ![self].hist.skipped = p.hist.skipped \cup {r.id}]
                /\ UNCHANGED printings
           ELSE \/ /\ ~ContextDone(p)
                   /\ printings' = UpsertPrinting(printings, r)
                   /\ proc' = [proc EXCEPT ![self].prints = p.prints \ {r},
                                           ![self].hist.stored = p.hist.stored \cup {r.id}]
                \/ /\ proc' = [proc EXCEPT ![self] = AfterFailedPrinting(p, r)]
                   /\ UNCHANGED printings
        /\ UNCHANGED <<mu, cards, queryCache, uncalledVars, instanceVars>>

\* InsertCardFromAPI lines 106-109: FetchCardByExactOracleID
Reread(self) ==
    LET p == proc[self]
        f == FetchCardByExactOracleID(cards, printings, p.cur[1].oracle_id)
    IN  /\ p.pc = "reread"
        /\ proc' = [proc EXCEPT ![self] =
                      IF ContextDone(p) \/ f.err # Nil
                      THEN [p EXCEPT !.pc = "unlock",
                                     !.err = "could not fetch newly stored card"]
                      ELSE [p EXCEPT !.pc = "unlock", !.card = <<f.card>>]]
        /\ UNCHANGED <<mu, cards, printings, queryCache, uncalledVars, instanceVars>>

\* an Unlock written on the success path only, not deferred
AfterUnlock_KeptOnError(holder, p) == IF p.err # Nil THEN holder ELSE Nil

\* defer s.mu.Unlock() (query.go:62, 122): the mutex is free when the function
\* returns, whatever it returns
AfterUnlock(holder, p) == Nil

\* InsertCardFromAPI line 62: the deferred s.mu.Unlock(), and the return
Unlock(self) ==
    /\ proc[self].pc = "unlock"
    /\ mu' = AfterUnlock(self, proc[self])
    /\ proc' = [proc EXCEPT ![self] = AfterInsert(proc[self])]
    /\ UNCHANGED <<cards, printings, queryCache, uncalledVars, instanceVars>>

\* cacheQuery lines 116-121: sb.mu.Lock()
CacheLock(self) ==
    /\ proc[self].pc = "cacheLock"
    /\ CanLock(mu)
    /\ mu' = self
    /\ proc' = [proc EXCEPT ![self].pc = "cacheInsert"]
    /\ UNCHANGED <<cards, printings, queryCache, uncalledVars, instanceVars>>

\* cacheQuery lines 123-129: InsertQueryCache, a plain INSERT. It adds a row, also
\* when the query has one, unless the table takes one row per query_text: then
\* the second INSERT fails, as does any INSERT whose context is done.
\* findQuery only warns when cacheQuery fails.
CacheInsert(self) ==
    LET p == proc[self]
    IN  /\ p.pc = "cacheInsert"
        /\ \/ /\ ~ContextDone(p)
              /\ queryCache' = InsertQueryCache(queryCache, p.query, p.ids)
           \/ /\ ContextDone(p) \/ GetCachedQuery(queryCache, p.query) # <<>>
              /\ UNCHANGED queryCache
        /\ proc' = [proc EXCEPT ![self].pc = "cacheUnlock"]
        /\ UNCHANGED <<mu, cards, printings, uncalledVars, instanceVars>>

\* cacheQuery line 122: the deferred sb.mu.Unlock(); findQuery line 191
CacheUnlock(self) ==
    /\ proc[self].pc = "cacheUnlock"
    /\ mu' = AfterUnlock(self, proc[self])
    /\ proc' = [proc EXCEPT ![self] = Returns(proc[self], Nil, proc[self].result)]
    /\ UNCHANGED <<cards, printings, queryCache, uncalledVars, instanceVars>>

StartQuery(self) ==
    \E q \in ConcQueries : StartCall(self, "Query", q, <<>>, "")

StartQueryCard(self) ==
    \E n \in ConcNames : StartCall(self, "QueryCard", "", n, "")

StartQueryCardByOracleID(self) ==
    \E o \in ConcOracleIds : StartCall(self, "QueryCardByOracleID", "", <<>>, o)

StartFetchCardByExactName(self) ==
    \E n \in ConcNames : StartCall(self, "FetchCardByExactName", "", n, "")

StartFetchCardByExactOracleID(self) ==
    \E o \in ConcOracleIds : StartCall(self, "FetchCardByExactOracleID", "", <<>>, o)

CallersNext ==
    \/ \E self \in Callers : StartQuery(self)
    \/ \E self \in Callers : StartQueryCard(self)
    \/ \E self \in Callers : StartQueryCardByOracleID(self)
    \/ \E self \in Callers : StartFetchCardByExactName(self)
    \/ \E self \in Callers : StartFetchCardByExactOracleID(self)
    \/ \E self \in Callers : Cancel(self)
    \/ \E self \in Callers : QueryLookup(self)
    \/ \E self \in Callers : RemoteSearch(self)
    \/ \E self \in Callers : NextCard(self)
    \/ \E self \in Callers : ReadCard(self)
    \/ \E self \in Callers : ReadPrintings(self)
    \/ \E self \in Callers : RemoteNamed(self)
    \/ \E self \in Callers : Lock(self)
    \/ \E self \in Callers : UpsertCardStep(self)
    \/ \E self \in Callers : UpsertPrintingStep(self)
    \/ \E self \in Callers : RemoteFetchAll(self)
    \/ \E self \in Callers : PrintingStep(self)
    \/ \E self \in Callers : Reread(self)
    \/ \E self \in Callers : Unlock(self)
    \/ \E self \in Callers : CacheLock(self)
    \/ \E self \in Callers : CacheInsert(self)
    \/ \E self \in Callers : CacheUnlock(self)

\* two callers of a new instance on a new database
InitCallers ==
    /\ cards = <<>>
    /\ printings = [id \in PrintingIds |-> NoRow]
    /\ queryCache = <<>>
    /\ last = NoCall
    /\ ParserInit
    /\ InstanceInit
    /\ deck = EmptyDecklist
    /\ verdict = NoVerdict
    /\ mu = Nil
    /\ proc = [self \in Callers |-> IdleCaller]

NextCallers == CallersNext

SpecCallers == InitCallers /\ [][NextCallers]_vars

\* a step of a call that is under way: everything but the start of a call and
\* the cancellation of its context, which are the caller's to decide
CallerStep(self) ==
    \/ QueryLookup(self)
    \/ RemoteSearch(self)
    \/ NextCard(self)
    \/ ReadCard(self)
    \/ ReadPrintings(self)
    \/ RemoteNamed(self)
    \/ Lock(self)
    \/ UpsertCardStep(self)
    \/ UpsertPrintingStep(self)
    \/ RemoteFetchAll(self)
    \/ PrintingStep(self)
    \/ Reread(self)
    \/ Unlock(self)
    \/ CacheLock(self)
    \/ CacheInsert(self)
    \/ CacheUnlock(self)

\* every goroutine that can run does run, every store statement and every
\* remote request returns, and sync.Mutex hands the lock to a waiting goroutine
SpecCallersFair == SpecCallers /\ \A self \in Callers : WF_vars(CallerStep(self))

\* the validators, applied to Decklists that a caller built or parsed
InitValidate ==
    /\ cards = <<>>
    /\ printings = [id \in PrintingIds |-> NoRow]
    /\ queryCache = <<>>
    /\ last = NoCall
    /\ ParserInit
    /\ InstanceInit
    /\ deck \in Decklists
    /\ verdict = NoVerdict
    /\ CallersInit

NextValidate == ValidatorNext

SpecValidate == InitValidate /\ [][NextValidate]_vars

----------------------------------------------------------------------------
(* Claims *)

\* C1 (as claimed): every Card returned without error by a resolver call
\* (Query, QueryCard, QueryCardByOracleID, Fetch*) has at least one printing.
C1_ReturnedCardsHavePrintings ==
    last.err = Nil => \A i \in 1..Len(last.result) : last.result[i].Printings # {}

\* C2: a Query, QueryCard or QueryCardByOracleID whose key is in the store makes
\* no call to the remote client, and answers from the store.
C2_StoreHitMakesNoRemoteCall ==
    (last.op \in {"Query", "QueryCard", "QueryCardByOracleID"} /\ last.inStore)
        => /\ last.calls = 0
           /\ (~last.missing => last.err = Nil /\ Len(last.result) >= IF last.op = "Query" THEN 0 ELSE 1)

C2_Witness ==
    /\ last.op = "QueryCardByOracleID"
    /\ last.inStore
    /\ last.err = Nil
    /\ Len(last.result) = 1

\* the step is a call op(query) that follows a successful cache-miss Query(query)
AfterMissQuery(op) ==
    /\ last.op = "Query" /\ ~last.inStore /\ last.err = Nil
    /\ last'.op = op /\ last'.query = last.query

\* C3 (as claimed): a Query(q) that follows a successful cache-miss Query(q)
\* succeeds and returns the same oracle ids at the same positions.
C3_RepeatedQueryReturnsSameIds ==
    [][AfterMissQuery("Query")
         => /\ last'.err = Nil
            /\ OracleIDsOf(last'.result) = OracleIDsOf(last.result)]_vars

\* C3 (amended): the same, when the first call's QueryCacheEntry was written.
C3_RepeatedQueryReturnsSameIdsIfCached ==
    [][(AfterMissQuery("Query") /\ last.cached)
         => /\ last'.err = Nil
            /\ OracleIDsOf(last'.result) = OracleIDsOf(last.result)]_vars

C3_Witness ==
    /\ last.op = "Query"
    /\ last.inStore
    /\ last.err = Nil
    /\ Len(last.result) = 2

\* C4: a Query or FetchCardsByQuery that finds a QueryCacheEntry listing an oracle
\* id without CardRecord returns an error and no list, and calls no remote.
C4_DanglingCacheEntryIsAnError ==
    (last.op \in {"Query", "FetchCardsByQuery"} /\ last.missing)
        => /\ last.err \notin {Nil, "sql.ErrNoRows"}
           /\ last.isNil
           /\ last.result = <<>>
           /\ last.calls = 0

C4_Witness ==
    /\ last.op = "Query"
    /\ last.missing
    /\ last.err # Nil

\* the oracle id list of the QueryCacheEntry that the last call read
LastEntryIds == GetCachedQuery(queryCache, last.query)[1].oracle_ids

\* C5, the parts about one call: FetchCardsByQuery returns sql.ErrNoRows, with a nil
\* list, exactly when the query has no QueryCacheEntry; a query cached with an
\* empty list gives an empty list and no error, and Query on it calls no remote.
C5_MissAndEmpty ==
    /\ last.op = "FetchCardsByQuery"
          => /\ (last.err = "sql.ErrNoRows") <=> ~last.inStore
             /\ last.err = "sql.ErrNoRows" => last.isNil
    /\ (last.op \in {"FetchCardsByQuery", "Query"} /\ last.inStore
           /\ LastEntryIds = <<>>)
          => /\ last.err = Nil
             /\ ~last.isNil
             /\ last.result = <<>>
             /\ last.calls = 0

NoTwoEntriesOfOneCard(list) ==
    \A j, k \in 1..Len(list) :
        list[j].card.OracleID = list[k].card.OracleID => j = k

\* C6: in the Decklist being built and in every Decklist returned, Maindeck and
\* Sideboard each hold at most one entry per oracle id.
C6_OneEntryPerOracleId ==
    /\ NoTwoEntriesOfOneCard(decklist.Maindeck)
    /\ NoTwoEntriesOfOneCard(decklist.Sideboard)
    /\ NoTwoEntriesOfOneCard(lastParse.decklist.Maindeck)
    /\ NoTwoEntriesOfOneCard(lastParse.decklist.Sideboard)

\* three lines naming card o1 (4 + 4 + 4, or 4 + 8) merged into one entry
C6_Witness ==
    /\ lastParse.done /\ ~lastParse.isNil
    /\ Len(lastParse.decklist.Maindeck) = 1
    /\ lastParse.decklist.Maindeck[1].card.OracleID = "o1"
    /\ lastParse.decklist.Maindeck[1].qty = 12

\* C7: the loop never goes on with a sideboard total above 15: the line that
\* takes the total above 15 ends the parse with the sideboard error, and a
\* returned Decklist has at most 15 sideboard cards.
C7_SideboardLimit ==
    /\ pc = "parsing" => /\ sideboardTotal <= 15
                         /\ NumberOfSideboardCards(decklist) = sideboardTotal
    /\ (pc = "idle" /\ sideboardTotal > 15)
          => /\ lastParse.done
             /\ lastParse.err = "sideboard exceeds 15 cards"
    /\ lastParse.err = "sideboard exceeds 15 cards" => sideboardTotal > 15
    /\ (lastParse.done /\ ~lastParse.isNil)
          => NumberOfSideboardCards(lastParse.decklist) <= 15

C7_Witness ==
    /\ pc = "idle"
    /\ lastParse.err = "sideboard exceeds 15 cards"
    /\ sideboardTotal = 16

\* the errors of parseDecklist that say a card could not be resolved
ResolutionErrors == {"card not found", "ambiguous card name", "failed to cache card"}

\* C8 (as claimed): a text of the README layout whose cards all resolve parses
\* successfully, NumberOfCards and NumberOfSideboardCards being the sums of the
\* quantities written before and after the Sideboard marker.
C8_MarkerTextParses ==
    (lastParse.done /\ lastParse.input.kind = "marker"
        /\ lastParse.err \notin ResolutionErrors)
        => /\ lastParse.err = Nil
           /\ NumberOfCards(lastParse.decklist) = lastParse.input.main
           /\ NumberOfSideboardCards(lastParse.decklist) = lastParse.input.side

\* C9: a parse that fails returns a nil Decklist, whatever it had accumulated.
C9_NoPartialDecklist ==
    (lastParse.done /\ lastParse.err # Nil)
        => /\ lastParse.isNil
           /\ lastParse.decklist = EmptyDecklist

C9_Witness ==
    /\ pc = "idle"
    /\ lastParse.done
    /\ lastParse.err = "invalid quantity"
    /\ Len(decklist.Maindeck) = 2
    /\ lastParse.isNil

\* C10 (as claimed): parsing D.String(), D returned by the parser, succeeds and
\* gives the totals of D.
C10_ExportParsesBack ==
    (lastParse.done /\ lastParse.input.kind = "export")
        => /\ lastParse.err = Nil
           /\ NumberOfCards(lastParse.decklist) = lastParse.input.main
           /\ NumberOfSideboardCards(lastParse.decklist) = lastParse.input.side

\* some card name that is neither a basic land name nor an unlimited-copies name
\* has more than 4 copies, maindeck and sideboard counted together
OverFourCopies(d) ==
    \E e \in {d.Maindeck[i] : i \in 1..Len(d.Maindeck)}
              \cup {d.Sideboard[i] : i \in 1..Len(d.Sideboard)} :
        /\ ~isBasicLandName(e.card.Name)
        /\ ~isSpecialCardName(e.card.Name)
        /\ CopiesIn(d.Maindeck, e.card.Name) + CopiesIn(d.Sideboard, e.card.Name) > 4

\* C11: ValidateDecklist(minCards, maxCards, maxSideboard) returns an error exactly
\* when the maindeck total is below minCards, or maxCards > 0 and the maindeck
\* total is above maxCards, or the sideboard total is above maxSideboard, or a
\* card that is not exempt has more than 4 copies over both sections.
C11_ValidateDecklistErrorsIff ==
    verdict.op = "ValidateDecklist"
        => (verdict.err # Nil
              <=> \/ NumberOfCards(deck) < verdict.minCards
                  \/ verdict.maxCards > 0 /\ NumberOfCards(deck) > verdict.maxCards
                  \/ NumberOfSideboardCards(deck) > verdict.maxSideboard
                  \/ OverFourCopies(deck))

\* 3 copies in the maindeck and 3 in the sideboard, every size within its limit
C11_Witness ==
    /\ verdict.op = "ValidateDecklist"
    /\ verdict.err = "copies between maindeck and sideboard, maximum is 4"
    /\ CopiesIn(deck.Maindeck, NameA) = 3
    /\ CopiesIn(deck.Sideboard, NameA) = 3

PositiveQuantities(d) ==
    /\ \A i \in 1..Len(d.Maindeck) : d.Maindeck[i].qty > 0
    /\ \A i \in 1..Len(d.Sideboard) : d.Sideboard[i].qty > 0

\* C12: ValidateConstructed returns an error for every Decklist of positive
\* quantities on which ValidateFourOfs fails, and passes 4 copies of an ordinary
\* card with 56 basic lands and an empty sideboard.
C12_ConstructedEnforcesFourCopies ==
    verdict.op = "ValidateConstructed"
        => /\ (PositiveQuantities(deck) /\ ValidateFourOfs(deck) # Nil)
                 => verdict.err # Nil
           /\ deck = [Maindeck |-> <<Entry("o1", NameA, 4), Entry("o3", Mountain, 56)>>,
                      Sideboard |-> <<>>]
                 => verdict.err = Nil

\* 5 copies of an ordinary card in a maindeck of at least 60, sideboard within 15
C12_Witness ==
    /\ verdict.op = "ValidateConstructed"
    /\ PositiveQuantities(deck)
    /\ NumberOfCards(deck) >= 60
    /\ NumberOfSideboardCards(deck) <= 15
    /\ CopiesIn(deck.Maindeck, NameA) = 5
    /\ verdict.err = "copies between maindeck and sideboard, maximum is 4"

\* C13 (as claimed): a Decklist of at least 40 maindeck cards that keeps the
\* 4-copy rule passes ValidateLimited, whatever its sideboard holds.
C13_LimitedHasNoSideboardMaximum ==
    (verdict.op = "ValidateLimited" /\ NumberOfCards(deck) >= 40
        /\ ~OverFourCopies(deck))
        => verdict.err = Nil

\* C14 (as claimed): ValidateFourOfs returns an error whenever a card that is not
\* exempt has more than 4 copies over maindeck and sideboard together.
C14_FourOfsCountsBothSections ==
    (verdict.op = "ValidateFourOfs" /\ OverFourCopies(deck))
        => verdict.err # Nil

\* the caller is between the start and the end of the upsert sequence of
\* InsertCardFromAPI or of the insert of cacheQuery
InWrite(p) ==
    p.pc \in {"upsertCard", "upsertPrinting", "fetchAll", "printing", "reread",
              "unlock", "cacheInsert", "cacheUnlock"}

\* C15: at most one caller at a time is inside the upsert sequence of
\* InsertCardFromAPI or the insert of cacheQuery, and it holds the mutex.
C15_WritersExcludeEachOther ==
    \A a, b \in DOMAIN proc :
        /\ (InWrite(proc[a]) /\ InWrite(proc[b])) => a = b
        /\ InWrite(proc[a]) => mu = a

\* one caller has upserted the card and the other waits for the mutex
C15_Witness ==
    \E a, b \in DOMAIN proc :
        /\ proc[a].pc = "upsertPrinting"
        /\ proc[b].pc \in {"lock", "cacheLock"}
        /\ mu = a

\* C16 (as claimed): when a caller of Query with a live context has written its
\* QueryCacheEntry, its call goes on without error and the entry looked up for
\* the query holds the oracle ids it wrote, also when another caller that
\* resolved the same query wrote its entry before.
C16_LastCacheWriteWins ==
    [][\A c \in DOMAIN proc :
          (proc[c].pc = "cacheInsert" /\ proc'[c].pc = "cacheUnlock"
              /\ proc[c].ctx = "live")
          => /\ proc'[c].err = Nil
             /\ GetCachedQuery(queryCache', proc[c].query) # <<>>
             /\ GetCachedQuery(queryCache', proc[c].query)[1].oracle_ids = proc[c].ids]_vars

\* C17 (as claimed): a lookup that finishes while another caller is inside the
\* insertion of the same card never returns the card with no printing.
C17_LookupDuringInsertionHasPrintings ==
    [][\A r \in DOMAIN proc :
          (/\ proc[r].pc = "readPrintings"
           /\ proc'[r].pc = "done"
           /\ proc'[r].err = Nil
           /\ \E w \in DOMAIN proc \ {r} :
                 /\ mu = w
                 /\ proc[w].cur # <<>>
                 /\ proc[w].cur[1].oracle_id = proc[r].found)
          => proc'[r].result[1].Printings # {}]_vars

\* the step is a request of caller c to the remote client
RemoteStep(c) ==
    /\ proc[c].pc \in {"search", "named", "fetchAll"}
    /\ proc'[c].pc # proc[c].pc

\* C18 (as claimed): once its context is cancelled, a call makes no request to
\* the remote client and returns an error.
C18_NoRequestOnceCancelled ==
    [][\A c \in DOMAIN proc :
          proc[c].ctx = "cancelled"
          => /\ ~RemoteStep(c)
             /\ (proc[c].pc # "done" /\ proc'[c].pc = "done") => proc'[c].err # Nil]_vars

\* C19: an insertion whose context is live and that upserted the card and the
\* record's own printing returns the Card, with that printing and every
\* printing of the history it stored, and has gone through the whole history,
\* whether the history fetch failed or printings were skipped.
C19_HistoryNeverFailsInsertion ==
    \A c \in DOMAIN proc :
        (/\ proc[c].pc = "unlock"
         /\ proc[c].ctx = "live"
         /\ proc[c].err \notin {"could not upsert card", "could not upsert printing"})
        => /\ proc[c].err = Nil
           /\ proc[c].card # <<>>
           /\ proc[c].prints = {}
           /\ proc[c].cur[1].id \in proc[c].card[1].Printings
           /\ proc[c].hist.stored \subseteq proc[c].card[1].Printings
           /\ proc[c].hist.fetched = proc[c].hist.stored \cup proc[c].hist.skipped

\* the upsert of printing p2 failed, the record without oracle_id was skipped,
\* and the insertion returns the card with printing p1
C19_Witness ==
    \E c \in DOMAIN proc :
        /\ proc[c].pc = "unlock"
        /\ proc[c].ctx = "live"
        /\ proc[c].err = Nil
        /\ proc[c].hist.skipped = {"p2", "p4"}
        /\ proc[c].card # <<>>
        /\ proc[c].card[1].Printings = {"p1"}

\* C20 (as claimed): when QueryCard does not find the name in the store and the
\* exact-name lookup of the remote finds nothing, a broader search follows.
C20_AbsentNameFallsBack ==
    (last.op = "QueryCard" /\ ~last.inStore /\ last.err = "failed to find card")
        => last.calls >= 2

\* C20 (amended): when QueryCard does not find the name in the store it makes one
\* exact-name lookup; when that fails the call returns its error and no card
\* after that single request, and no other error tells not-found from ambiguous;
\* when it answers, the call returns the inserted card or the insertion's error.
C20_AbsentNameOneExactLookup ==
    (last.op = "QueryCard" /\ ~last.inStore)
        => /\ last.calls \in {1, 2}
           /\ last.err = "failed to find card" => (last.calls = 1 /\ last.isNil)
           /\ last.err \in {Nil, "failed to find card",
                            "could not convert API card to DB params",
                            "could not upsert card", "could not upsert printing",
                            "could not fetch newly stored card"}
           /\ last.err = Nil => (Len(last.result) = 1 /\ last.calls = 2)

C20_Witness ==
    /\ last.op = "QueryCard"
    /\ ~last.inStore
    /\ last.err = "failed to find card"
    /\ last.calls = 1
    /\ last.name = NameB

\* C21 helpers: the data the line's searches found, and the record the policy names
C21_Found ==
    IF last.seen[1].err = Nil /\ Len(last.seen[1].data) > 0 THEN last.seen[1].data
    ELSE IF Len(last.seen) = 2 /\ last.seen[2].err = Nil THEN last.seen[2].data
    ELSE <<>>

C21_Matches == {k \in 1..Len(C21_Found) : EqualFold(C21_Found[k].name, last.name)}

\* C21: for a decklist line whose name is not in the store, the second (unquoted)
\* search is made exactly when the first (quoted) one fails or finds nothing; if
\* neither finds anything the error is 'card not found'; otherwise the card is
\* the first found record whose name equals the line's name ignoring case, else
\* the only found record, else the error is 'ambiguous card name' and lists the
\* names of all found records.
C21_LineResolutionPolicy ==
    (last.op = "ResolveLine" /\ ~last.inStore) =>
        /\ Len(last.seen) \in {1, 2}
        /\ Len(last.seen) = 2 <=>
               (last.seen[1].err # Nil \/ Len(last.seen[1].data) = 0)
        /\ IF C21_Found = <<>>
           THEN last.err = "card not found"
           ELSE IF C21_Matches # {}
           THEN /\ last.err \in {Nil, "failed to cache card"}
                /\ last.err = Nil =>
                      \E k \in C21_Matches :
                         /\ \A j \in C21_Matches : k <= j
                         /\ last.result[1].OracleID = C21_Found[k].oracle_id
           ELSE IF Len(C21_Found) = 1
           THEN /\ last.err \in {Nil, "failed to cache card"}
                /\ last.err = Nil =>
                      last.result[1].OracleID = C21_Found[1].oracle_id
           ELSE /\ last.err = "ambiguous card name"
                /\ last.listed = [k \in 1..Len(C21_Found) |-> C21_Found[k].name]

\* a line naming "B" was resolved to the only record the second search found,
\* whose name is not "B"
C21_Witness ==
    /\ last.op = "ResolveLine" /\ ~last.inStore
    /\ last.name = NameB
    /\ Len(last.seen) = 2
    /\ last.err = Nil
    /\ Len(C21_Found) = 1
    /\ C21_Matches = {}

\* C22 (as claimed): the "(setcode) collector-number" suffix never changes what
\* parseCardLine returns: the line "q n (S) 1" gives the same quantity and the
\* same name as the line "q n", for every name n, names with parentheses included.
C22_SuffixNeverAffectsLine ==
    last.op = "parseCardLine" =>
        /\ last.suffixed.err = last.plain.err
        /\ last.suffixed.quantity = last.plain.quantity
        /\ last.suffixed.cardName = last.plain.cardName

\* the entries of both sections of a Decklist
C23_Entries(d) ==
    {d.Maindeck[i] : i \in 1..Len(d.Maindeck)}
    \cup {d.Sideboard[i] : i \in 1..Len(d.Sideboard)}

\* C23 (as claimed): every quantity in a Decklist that ParseDecklist returns is a
\* positive integer; a card line stating 0 or a negative quantity is a parse error.
C23_QuantitiesArePositive ==
    (lastParse.done /\ lastParse.err = Nil) =>
        \A e \in C23_Entries(lastParse.decklist) : e.qty > 0

\* the oracle ids of the groups of the remote answer to the last Query: the
\* distinct non-null oracle ids of its records
RemoteGroups ==
    {last.seen[1].data[i].oracle_id : i \in 1..Len(last.seen[1].data)} \ {Null}

\* the last call was a Query that found no cache entry and asked the remote
QueryMiss == last.op = "Query" /\ ~last.inStore /\ Len(last.seen) = 1

\* C24: a cache write that fails after a successful fetch is not fatal: Query
\* never returns the cache write's error; when the write failed it returns the
\* fetched Cards without error, their records are in the store, and the query
\* has no cache entry, so that the next Query for the text is a miss again.
C24_CacheWriteFailureIsNotFatal ==
    QueryMiss =>
        /\ last.err # "could not cache query"
        /\ (last.err = Nil /\ ~last.cached) =>
              /\ ~last.isNil
              /\ {last.result[i].OracleID : i \in 1..Len(last.result)} = RemoteGroups
              /\ \A i \in 1..Len(last.result) :
                    /\ GetCardByOracleID(cards, last.result[i].OracleID) # {}
                    /\ last.result[i].Printings # {}
                    /\ last.result[i].Printings \subseteq
                          GetPrintingsByOracleID(printings, last.result[i].OracleID)
              /\ ~IsCached(last.query)

\* a Query fetched two cards, its cache write failed, and it returned both
C24_Witness ==
    /\ QueryMiss
    /\ last.err = Nil
    /\ ~last.cached
    /\ Len(last.result) = 2
    /\ ~IsCached(last.query)

\* the two oracle ids are the same but for the case of their letters
C25_SameButCase(a, b) ==
    (IF a = "O1" THEN "o1" ELSE a) = (IF b = "O1" THEN "o1" ELSE b)

\* C25 (as claimed): oracle ids match without regard to case: QueryCardByOracleID
\* with an id that differs only in case from a stored one is a store hit, with
\* no remote call and no error.
C25_OracleIdMatchIgnoresCase ==
    [][(/\ last'.op = "QueryCardByOracleID"
        /\ \E o \in DOMAIN cards : C25_SameButCase(o, last'.oracleID))
       => (last'.calls = 0 /\ last'.err = Nil)]_vars

\* C26: on a miss that succeeds, the returned list has exactly one Card for each
\* distinct non-null oracle id of the remote answer and nothing else, and no
\* oracle id occurs twice in it or in the cache entry written for the query.
C26_OneCardPerOracleId ==
    (QueryMiss /\ last.err = Nil) =>
        /\ {last.result[i].OracleID : i \in 1..Len(last.result)} = RemoteGroups
        /\ Len(last.result) = Cardinality(RemoteGroups)
        /\ last.cached =>
              LET ids == GetCachedQuery(queryCache, last.query)[1].oracle_ids
              IN  /\ {ids[i] : i \in 1..Len(ids)} = RemoteGroups
                  /\ Len(ids) = Cardinality(RemoteGroups)

\* the remote answered with a record without oracle id and a record of a card,
\* and the Query returned that one card and cached it
C26_Witness ==
    /\ QueryMiss
    /\ last.err = Nil
    /\ last.cached
    /\ Len(last.seen[1].data) = 2
    /\ last.seen[1].data[1].oracle_id = Null
    /\ Len(last.result) = 1

\* the position at which the group of oracle id o is first seen in the remote answer
C27_Discovered(o) ==
    CHOOSE i \in 1..Len(last.seen[1].data) :
        /\ last.seen[1].data[i].oracle_id = o
        /\ \A j \in 1..(i - 1) : last.seen[1].data[j].oracle_id # o

\* C27 (as claimed): on a miss, the returned Cards and the cached oracle ids are
\* in the order in which their groups were first seen in the remote answer.
C27_DiscoveryOrder ==
    (QueryMiss /\ last.err = Nil) =>
        /\ \A i, j \in 1..Len(last.result) :
              i < j => C27_Discovered(last.result[i].OracleID)
                         < C27_Discovered(last.result[j].OracleID)
        /\ last.cached =>
              LET ids == GetCachedQuery(queryCache, last.query)[1].oracle_ids
              IN  \A i, j \in 1..Len(ids) :
                     i < j => C27_Discovered(ids[i]) < C27_Discovered(ids[j])

\* C28: the cache entry is written all or nothing: a miss whose remote search
\* fails or that returns an error leaves no entry for the query, and an entry
\* that exists after a miss lists the oracle id of every group of the remote
\* answer, which are the oracle ids of the Cards the call returned.
C28_CacheEntryAllOrNothing ==
    QueryMiss =>
        /\ last.seen[1].err # Nil => last.err # Nil
        /\ last.err # Nil => ~IsCached(last.query)
        /\ IsCached(last.query) =>
              LET ids == GetCachedQuery(queryCache, last.query)[1].oracle_ids
              IN  /\ {ids[i] : i \in 1..Len(ids)} = RemoteGroups
                  /\ ids = [i \in 1..Len(last.result) |-> last.result[i].OracleID]

\* a Query stored the card of one group, failed on the other and left no entry
C28_Witness ==
    /\ QueryMiss
    /\ last.seen[1].err = Nil
    /\ last.err # Nil
    /\ Cardinality(RemoteGroups) = 2
    /\ RemoteGroups \cap DOMAIN cards # {}
    /\ RemoteGroups \ DOMAIN cards # {}
    /\ ~IsCached(last.query)

C30_EveryRemoteRecordStored ==
    (QueryMiss /\ last.err = Nil) =>
        \A i \in 1..Len(last.seen[1].data) :
            last.seen[1].data[i].oracle_id # Null
                => printings[last.seen[1].data[i].id] # NoRow

\* C31: a Deck line after an earlier Deck line or after a Sideboard line ends
\* the parse with an error, and so does a Sideboard line after an earlier one;
\* once a Sideboard line was read, a card line that is accepted adds its
\* quantity to the sideboard and the maindeck never changes again.
C31_SectionMarkers ==
    [][(pc = "parsing" /\ input.kind = "sections" /\ rest # <<>>) =>
         LET line == Head(rest)
             before == {input.text[k] : k \in 1..lineNo}
             failed == /\ pc' = "idle"
                       /\ lastParse'.done
                       /\ lastParse'.err # Nil
                       /\ lastParse'.isNil
         IN  /\ (EqualFold(line, Deck) /\ (Deck \in before \/ Sideboard \in before))
                   => failed
             /\ (EqualFold(line, Sideboard) /\ Sideboard \in before) => failed
             /\ (Sideboard \in before /\ pc' = "parsing") =>
                   /\ decklist'.Maindeck = decklist.Maindeck
                   /\ NumberOfSideboardCards(decklist') =
                         NumberOfSideboardCards(decklist) + parseCardLine(line).quantity
       ]_vars

\* a second Sideboard line ended a parse that had put a card line in the
\* sideboard and nothing in the maindeck
C31_Witness ==
    /\ pc = "idle"
    /\ lastParse.done
    /\ lastParse.input.kind = "sections"
    /\ lastParse.err = "cannot have sideboard twice"
    /\ sideboardTotal = 4
    /\ decklist.Maindeck = <<>>
    /\ NumberOfSideboardCards(decklist) = 4

\* C32 (as claimed): a text whose first line is About parses only if a second
\* line follows that begins with Name: a parse that ends when About is the only
\* line read, for want of a second line or on a second line that is no Name line,
\* ends with an error.
C32_AboutNeedsName ==
    [][(pc = "parsing" /\ hasAbout /\ lineNo = 1 /\ pc' = "idle")
          => (lastParse'.done /\ lastParse'.err # Nil)]_vars

\* C33: in every state every oracle id listed in an entry of the query cache
\* has a CardRecord, and a Query or FetchCardsByQuery that finds the query's
\* entry never fails for want of a listed card.
C33_CacheEntriesHaveCards ==
    /\ \A i \in 1..Len(queryCache) :
          \A k \in 1..Len(queryCache[i].oracle_ids) :
             GetCardByOracleID(cards, queryCache[i].oracle_ids[k]) # {}
    /\ (last.op \in {"Query", "FetchCardsByQuery"} /\ last.inStore)
          => (last.err = Nil /\ ~last.missing)

\* a Query answered from an entry that lists two cards
C33_Witness ==
    /\ last.op = "Query"
    /\ last.inStore
    /\ last.err = Nil
    /\ Len(last.result) = 2
    /\ Cardinality(DOMAIN cards) = 2

\* the caller is blocked in s.mu.Lock() or about to call it
WaitsForLock(self) ==
    \/ proc[self].pc = "lock" /\ proc[self].cur[1].oracle_id # Null
    \/ proc[self].pc = "cacheLock"

\* the positions of a call between s.mu.Lock() and the deferred s.mu.Unlock()
LockedPositions ==
    {"upsertCard", "upsertPrinting", "fetchAll", "printing", "reread", "unlock",
     "cacheInsert", "cacheUnlock"}

\* C34: the lock is held only by a caller that is between Lock and the deferred
\* Unlock, never by one that has returned or that waits for it; and every
\* caller that waits for the lock eventually holds it.
C34_LockIsReleasedAndAcquired ==
    /\ [](\A self \in Callers : mu = self <=> proc[self].pc \in LockedPositions)
    /\ \A self \in Callers : WaitsForLock(self) ~> (mu = self)

\* a caller waits for the lock while the other holds it and is about to return
\* an error from InsertCardFromAPI
C34_Witness ==
    /\ WaitsForLock("c2")
    /\ mu = "c1"
    /\ proc["c1"].pc = "unlock"
    /\ proc["c1"].err # Nil

\* C35: a Query that finds the query's entry and returns from it writes
\* nothing: the entries of the query cache, hit counts included, the card
\* records and the printing records are what they were before the call.
C35_CacheHitWritesNothing ==
    [][(last'.op = "Query" /\ last'.inStore /\ last'.err = Nil)
          => /\ queryCache' = queryCache
             /\ cards' = cards
             /\ printings' = printings]_vars

\* a Query returned a card from the query's entry
C35_Witness ==
    /\ last.op = "Query"
    /\ last.inStore
    /\ last.err = Nil
    /\ last.calls = 0
    /\ Len(last.result) >= 1
    /\ GetCachedQuery(queryCache, last.query)[1].hit_count = 0

\* C36 (as claimed): ensureCurrentScryball never returns a nil instance with a
\* nil error, whatever calls came before it, and a call never replaces an
\* instance that is installed.
C36_AccessorNeverNilNil ==
    /\ [](last.op = "ensureCurrentScryball" => (last.instance # Nil \/ last.err # Nil))
    /\ [][(CurrentScryball # Nil /\ last'.op \in {"ensureCurrentScryball", "GlobalQuery"})
             => CurrentScryball' = CurrentScryball]_vars

====
